---------------------------- MODULE Spec2Model ----------------------------
(* VoteFlow-AI: the campaign wizard (PaymentModal) and the execution       *)
(* console (Dashboard) as state machines.  React state hooks are the      *)
(* variables; every event handler, and every continuation of a handler    *)
(* after an await, is one action.  A handler that awaits a network call   *)
(* leaves a request in `inflight`, carrying the values its closure        *)
(* captured when it was invoked; the response action is its continuation. *)
EXTENDS Integers, Sequences, FiniteSets, TLC

VARIABLES
    \* ---- PaymentModal (src/unnamed/part_000) ----
    isDevUser,        \* isDevAccount(userEmail), fixed for a behaviour
    modalOpen,        \* the caller renders PaymentModal (App.showPaymentModal)
    step,             \* 0 plan, 1 upload, 2 message, 3 payment, 4 verification
    selectedPlan,
    votersFile,       \* <<>> (null) or <<file>>
    extractedVoters,
    messageTemplate,
    isExtracting,
    isProcessing,
    error,
    paymentId,
    launched,         \* the mounted wizard handed off: onClose() + navigate('/dashboard')
    inflight,         \* network calls awaiting their response, in dispatch order
    paymentPageOpened, \* window.open(RAZORPAY_LINK) was called by the mounted wizard
    runs,             \* how many times the caller has rendered the wizard
    \* ---- browser storage and router ----
    userCampaigns,    \* localStorage voteflow_user_campaigns: <<>> or <<record>>
    pendingCampaign,  \* localStorage voteflow_pending_campaign
    paidCampaign,     \* localStorage voteflow_paid_campaign
    navState,         \* state handed to navigate('/dashboard', {state})
    \* ---- history of the collaborators' answers ----
    verifiedRefs,     \* references the verifier answered verified = true for
    \* ---- Dashboard (src/unnamed/part_001) ----
    connected,
    campaignId,
    isRunning,
    logs,
    stats,
    backendStatus,
    qrCodeUrl,
    showQrModal,
    wsRef,            \* <<>> or <<connection id>>
    sockets,          \* connection id -> "connecting" | "open" | "closing" | "closed"
    logSeq,           \* number of log entries appended so far (stands for Date.now())
    healthPending,    \* the health probe dispatched on mount has not answered yet
    dashVoters,       \* the Dashboard's extractedVoters
    dashMessage,      \* the Dashboard's messageTemplate
    dashInflight,     \* the Dashboard's network calls awaiting their response
    dashMounted       \* the route /dashboard is rendered

wizardVars == <<isDevUser, modalOpen, step, selectedPlan, votersFile, extractedVoters,
                messageTemplate, isExtracting, isProcessing, error, paymentId, launched,
                inflight, paymentPageOpened, runs>>
storageVars == <<userCampaigns, pendingCampaign, paidCampaign, navState, verifiedRefs>>
consoleVars == <<connected, campaignId, isRunning, logs, stats, backendStatus,
                 qrCodeUrl, showQrModal, wsRef, sockets, logSeq, healthPending,
                 dashVoters, dashMessage, dashInflight, dashMounted>>
vars == <<wizardVars, storageVars, consoleVars>>

-----------------------------------------------------------------------------
(* Bounds of the model *)

MaxInFlight == 2      \* network calls outstanding at once
MaxRuns == 1          \* wizard runs (PaymentModal mounts) in a behaviour
MaxSockets == 2       \* telemetry connections created in a behaviour
MaxLogEvents == 7     \* log entries appended in a console behaviour
RingEvents == 60      \* log entries appended in the ring behaviour (spec section 8)
ChannelEvents == 7    \* log entries appended in a channel behaviour
TelemetryLog == 3     \* log entries appended in a telemetry behaviour

-----------------------------------------------------------------------------
(* JavaScript values: numbers, undefined, NaN and null are told apart,    *)
(* since a plan object may lack fields.                                   *)

Num(n) == [tag |-> "num", val |-> n]
Undefined == [tag |-> "undefined", val |-> 0]
NaN == [tag |-> "NaN", val |-> 0]
Null == [tag |-> "null", val |-> 0]

IsNum(v) == v.tag = "num"

\* ToNumber: undefined -> NaN, null -> 0
ToNumber(v) ==
    CASE v.tag = "num" -> v
      [] v.tag = "null" -> Num(0)
      [] OTHER -> NaN

JsSub(a, b) ==
    LET x == ToNumber(a)
        y == ToNumber(b)
    IN IF IsNum(x) /\ IsNum(y) THEN Num(x.val - y.val) ELSE NaN

\* Math.max(a, b): NaN when either argument converts to NaN
MathMax(a, b) ==
    LET x == ToNumber(a)
        y == ToNumber(b)
    IN IF IsNum(x) /\ IsNum(y)
       THEN (IF x.val >= y.val THEN x ELSE y)
       ELSE NaN

\* n > v for a number n: false when v converts to NaN
JsGreater(n, v) ==
    LET y == ToNumber(v)
    IN IsNum(y) /\ n > y.val

\* JSON.stringify then JSON.parse of a property value: NaN is written as
\* null; an undefined property is omitted and reads back as undefined.
JsonValue(v) == IF v.tag = "NaN" THEN Null ELSE v

\* Array.prototype.slice(0, end) with end a JS value: undefined means "to the end"
Slice0(arr, end) ==
    IF end.tag = "undefined" THEN arr
    ELSE LET e == ToNumber(end)
         IN IF ~IsNum(e) \/ e.val <= 0 THEN <<>>
            ELSE IF e.val >= Len(arr) THEN arr
            ELSE SubSeq(arr, 1, e.val)

RemoveAt(s, i) == SubSeq(s, 1, i - 1) \o SubSeq(s, i + 1, Len(s))

-----------------------------------------------------------------------------
(* Strings are sequences of characters. *)

Digits == {"0", "1", "2", "3", "4", "5", "6", "7", "8", "9"}
LowerAlpha == {"a", "b", "c", "d", "e", "f", "g", "h", "i", "j", "k", "l", "m",
               "n", "o", "p", "q", "r", "s", "t", "u", "v", "w", "x", "y", "z"}
UpperAlpha == {"A", "B", "C", "D", "E", "F", "G", "H", "I", "J", "K", "L", "M",
               "N", "O", "P", "Q", "R", "S", "T", "U", "V", "W", "X", "Y", "Z"}
Whitespace == {" ", "\n", "\t", "\r"}

RECURSIVE TrimStart(_)
TrimStart(s) == IF s # <<>> /\ Head(s) \in Whitespace THEN TrimStart(Tail(s)) ELSE s

RECURSIVE TrimEnd(_)
TrimEnd(s) ==
    IF s # <<>> /\ s[Len(s)] \in Whitespace THEN TrimEnd(SubSeq(s, 1, Len(s) - 1)) ELSE s

\* String.prototype.trim
Trim(s) == TrimEnd(TrimStart(s))

\* sanitizeInput: < > " ' become HTML entities
SanitizeChar(c) ==
    CASE c = "<" -> <<"&", "l", "t", ";">>
      [] c = ">" -> <<"&", "g", "t", ";">>
      [] c = "\"" -> <<"&", "q", "u", "o", "t", ";">>
      [] c = "'" -> <<"&", "#", "x", "2", "7", ";">>
      [] OTHER -> <<c>>

RECURSIVE sanitizeInput(_)
sanitizeInput(input) ==
    IF input = <<>> THEN <<>>
    ELSE SanitizeChar(Head(input)) \o sanitizeInput(Tail(input))

\* the default message template (its text is Telugu; the model keeps a marker)
defaultMessage == <<"D", "E", "F">>

\* messageTemplate || defaultMessage
MessageOrDefault(m) == IF m # <<>> THEN m ELSE defaultMessage

\* a variant of paymentIdPattern with the quantifier {1,30}
paymentIdPatternShort(id) ==
    /\ Len(id) >= 4
    /\ SubSeq(id, 1, 4) = <<"p", "a", "y", "_">>
    /\ Len(id) - 4 >= 1
    /\ Len(id) - 4 <= 30
    /\ \A i \in 5..Len(id) : id[i] \in (Digits \cup LowerAlpha \cup UpperAlpha)

\* /^pay_[a-zA-Z0-9]{10,30}$/.test(id)
paymentIdPattern(id) ==
    /\ Len(id) >= 4
    /\ SubSeq(id, 1, 4) = <<"p", "a", "y", "_">>
    /\ Len(id) - 4 >= 10
    /\ Len(id) - 4 <= 30
    /\ \A i \in 5..Len(id) : id[i] \in (Digits \cup LowerAlpha \cup UpperAlpha)

\* the verify button: disabled={isProcessing || !paymentId || paymentId.length < 10}
VerifyDisabled == isProcessing \/ paymentId = <<>> \/ Len(paymentId) < 10


-----------------------------------------------------------------------------
(* Plan Catalog *)

NoId == "undefined"   \* a plan object without an id property

\* const PLANS
PLANS ==
    << [id |-> "ward", name |-> "Ward", price |-> <<"9", "9", "9">>,
        campaigns |-> Num(1), maxMessages |-> Num(500)],
       [id |-> "municipal", name |-> "Municipal", price |-> <<"2", ",", "4", "9", "9">>,
        campaigns |-> Num(3), maxMessages |-> Num(2000)],
       [id |-> "assembly", name |-> "Assembly", price |-> <<"4", ",", "9", "9", "9">>,
        campaigns |-> Num(5), maxMessages |-> Num(10000)] >>

\* App.jsx: the plan handed to PaymentModal for a direct launch; it has a
\* name, a price and a period, and no id, campaigns or maxMessages.
defaultPlan ==
    [id |-> NoId, name |-> "Municipal", price |-> <<"2", ",", "4", "9", "9">>,
     campaigns |-> Undefined, maxMessages |-> Undefined]

\* devConfig: getDevPlan()
getDevPlan ==
    [id |-> "dev", name |-> "Developer", price |-> <<"0">>,
     campaigns |-> Num(999), maxMessages |-> Num(999999)]

\* what a caller may pass as the plan prop: nothing, or App's defaultPlan
InitialPlans == {<<>>, <<defaultPlan>>}

DigitVal(c) ==
    CASE c = "0" -> 0 [] c = "1" -> 1 [] c = "2" -> 2 [] c = "3" -> 3 [] c = "4" -> 4
      [] c = "5" -> 5 [] c = "6" -> 6 [] c = "7" -> 7 [] c = "8" -> 8 [] c = "9" -> 9

RECURSIVE ParseDigits(_, _)
ParseDigits(s, acc) ==
    IF s = <<>> \/ Head(s) \notin Digits THEN acc
    ELSE ParseDigits(Tail(s), 10 * acc + DigitVal(Head(s)))

\* parseInt(price.replace(/,/g, ''))
PriceAmount(price) ==
    LET noCommas == SelectSeq(price, LAMBDA c : c # ",")
    IN IF noCommas = <<>> \/ Head(noCommas) \notin Digits THEN NaN
       ELSE Num(ParseDigits(noCommas, 0))

-----------------------------------------------------------------------------
(* Inputs of the wizard *)

UpperSeq == <<"A", "B", "C", "D", "E", "F", "G", "H", "I", "J", "K", "L", "M",
              "N", "O", "P", "Q", "R", "S", "T", "U", "V", "W", "X", "Y", "Z">>
LowerSeq == <<"a", "b", "c", "d", "e", "f", "g", "h", "i", "j", "k", "l", "m",
              "n", "o", "p", "q", "r", "s", "t", "u", "v", "w", "x", "y", "z">>

ToLowerChar(c) ==
    IF \E i \in 1..Len(UpperSeq) : UpperSeq[i] = c
    THEN LowerSeq[CHOOSE i \in 1..Len(UpperSeq) : UpperSeq[i] = c]
    ELSE c

\* String.prototype.toLowerCase
ToLowerCase(s) == [i \in 1..Len(s) |-> ToLowerChar(s[i])]

\* a variant of EndsWith that accepts every name
EndsWithAnything(s, suffix) == TRUE

\* String.prototype.endsWith
EndsWith(s, suffix) ==
    /\ Len(s) >= Len(suffix)
    /\ SubSeq(s, Len(s) - Len(suffix) + 1, Len(s)) = suffix

MaxFileSize == 10 * 1024 * 1024

\* one accepted file (upper-case extension, exactly 10 MB), one with another
\* extension, one too large
Files ==
    { [name |-> <<"B", ".", "P", "D", "F">>, size |-> MaxFileSize],
      [name |-> <<"c", ".", "c", "s", "v">>, size |-> 1024],
      [name |-> <<"d", ".", "p", "d", "f">>, size |-> MaxFileSize + 1] }

\* lengths of the contact sequences the extraction service returns
SourceSizes == {0, 2}

\* the contact sequence of a source document of n rows (contacts are numbered)
Source(n) == [i \in 1..n |-> i]

Messages == { <<>>, <<" ">>, <<"h", "<">> }

\* what the operator may type into the payment-reference field
PaymentIdInputs ==
    { <<>>,
      <<"p", "a", "y", "_", "1", "2", "3">>,
      <<"p", "a", "y", "_", "A", "B", "C", "1", "2", "3">>,
      <<"x", "y", "z", "_", "A", "B", "C", "1", "2", "3", "x", "y", "z", "9">>,
      <<"p", "a", "y", "_", "A", "B", "C", "1", "2", "3", "x", "y", "z", "9", " ">> }

CampaignIds == {"c1"}

ValidPaymentId == <<"p", "a", "y", "_", "A", "B", "C", "1", "2", "3", "x", "y", "z", "9">>

\* what localStorage may hold under voteflow_user_campaigns when the page
\* loads: nothing, or the record an earlier session of the wizard wrote
\* after a Ward purchase or after a first Municipal campaign
PriorUserCampaigns ==
    { <<>>,
      << [planId |-> "ward", total |-> Num(1), remaining |-> Num(0),
          paymentId |-> ValidPaymentId] >>,
      << [planId |-> "municipal", total |-> Num(3), remaining |-> Num(2),
          paymentId |-> ValidPaymentId] >> }

\* responses of the collaborators; "throw" is a transport failure (fetch or
\* res.json() rejects)
ExtractResponsesOf(sizes) ==
    { [outcome |-> "ok", n |-> n, detail |-> ""] : n \in sizes }
    \cup { [outcome |-> "fail", n |-> 0, detail |-> "Unreadable PDF"],
           [outcome |-> "fail", n |-> 0, detail |-> ""],
           [outcome |-> "throw", n |-> 0, detail |-> ""] }

ExtractResponses == ExtractResponsesOf(SourceSizes)

VerifyResponses ==
    { [outcome |-> "verified", message |-> ""],
      [outcome |-> "rejected", message |-> ""],
      [outcome |-> "rejected", message |-> "Payment not captured"],
      [outcome |-> "throw", message |-> ""] }

StartResponses ==
    { [outcome |-> "ok", campaign_id |-> c, detail |-> ""] : c \in CampaignIds }
    \cup { [outcome |-> "fail", campaign_id |-> "", detail |-> ""],
           [outcome |-> "throw", campaign_id |-> "", detail |-> ""] }

\* a variant of OrElse that drops the fallback
OrElseNothing(a, b) == a

\* a || b for strings
OrElse(a, b) == IF a # "" THEN a ELSE b

-----------------------------------------------------------------------------
(* PaymentModal: construction, closing *)

NoRequests == <<>>

\* a network call in flight and the closure of the handler awaiting it
Request(kind, by, plan, voters, message, pid) ==
    [kind |-> kind, by |-> by, live |-> TRUE, plan |-> plan, voters |-> voters,
     message |-> message, paymentId |-> pid]

\* The handlers of an unmounted component keep running, their state setters
\* no longer have any effect.  The continuation of handleFileUpload does
\* nothing but set state, so its pending call is dropped from the model.
Orphaned(reqs) ==
    LET kept == SelectSeq(reqs, LAMBDA q : q.kind # "extract")
    IN [i \in 1..Len(kept) |-> [kept[i] EXCEPT !.live = FALSE]]

\* a variant of InitialStep that always starts at plan selection
InitialStepZero(p) == 0

\* useState(initialPlan ? 1 : 0)
InitialStep(p) == IF p # <<>> THEN 1 ELSE 0

\* useState initial values (lines 51-62) and the mount effect (lines 65-77)
MountState(p) ==
    /\ step' = InitialStep(p)
    /\ selectedPlan' = IF isDevUser THEN getDevPlan
                       ELSE IF p # <<>> THEN p[1] ELSE PLANS[2]
    /\ votersFile' = <<>>
    /\ extractedVoters' = <<>>
    /\ messageTemplate' = <<>>
    /\ isExtracting' = FALSE
    /\ isProcessing' = FALSE
    /\ error' = ""
    /\ paymentId' = <<>>
    /\ paymentPageOpened' = FALSE

\* the component is unmounted: its state is gone
UnmountState ==
    /\ step' = 0
    /\ selectedPlan' = PLANS[2]
    /\ votersFile' = <<>>
    /\ extractedVoters' = <<>>
    /\ messageTemplate' = <<>>
    /\ isExtracting' = FALSE
    /\ isProcessing' = FALSE
    /\ error' = ""
    /\ paymentId' = <<>>
    /\ paymentPageOpened' = FALSE

\* the caller renders <PaymentModal plan={p} onClose=.../>
OpenModal(p) ==
    /\ ~modalOpen
    /\ runs < MaxRuns
    /\ runs' = runs + 1
    /\ modalOpen' = TRUE
    /\ launched' = FALSE
    /\ MountState(p)
    /\ UNCHANGED <<isDevUser, inflight, storageVars, consoleVars>>

\* onClose from the overlay or the close button: the operator cancels
CloseModal ==
    /\ modalOpen
    /\ modalOpen' = FALSE
    /\ launched' = FALSE
    /\ inflight' = Orphaned(inflight)
    /\ UnmountState
    /\ UNCHANGED <<isDevUser, runs, storageVars, consoleVars>>

-----------------------------------------------------------------------------
(* PaymentModal: plan selection and ingestion *)

handlePlanSelect(plan) ==
    /\ modalOpen /\ step = 0
    /\ selectedPlan' = plan
    /\ step' = 1
    /\ UNCHANGED <<isDevUser, runs, modalOpen, votersFile, extractedVoters, messageTemplate,
                   isExtracting, isProcessing, error, paymentId, launched, inflight,
                   paymentPageOpened, storageVars, consoleVars>>

\* step 1 back button: setStep(0)
BackToPlanSelection ==
    /\ modalOpen /\ step = 1
    /\ step' = 0
    /\ UNCHANGED <<isDevUser, runs, modalOpen, selectedPlan, votersFile, extractedVoters,
                   messageTemplate, isExtracting, isProcessing, error, paymentId, launched,
                   inflight, paymentPageOpened, storageVars, consoleVars>>

\* handleFileUpload up to its await; the upload button is disabled while
\* isExtracting
handleFileUpload(file) ==
    /\ modalOpen /\ step = 1 /\ ~isExtracting
    /\ IF ~EndsWith(ToLowerCase(file.name), <<".", "p", "d", "f">>)
       THEN /\ error' = "Only PDF files are allowed"
            /\ UNCHANGED <<votersFile, isExtracting, inflight>>
       ELSE IF file.size > MaxFileSize
       THEN /\ error' = "File size must be less than 10MB"
            /\ UNCHANGED <<votersFile, isExtracting, inflight>>
       ELSE /\ Len(inflight) < MaxInFlight
            /\ votersFile' = <<file>>
            /\ isExtracting' = TRUE
            /\ error' = ""
            /\ inflight' = Append(inflight,
                    Request("extract", "handleFileUpload", selectedPlan, <<>>, <<>>, <<>>))
    /\ UNCHANGED <<isDevUser, runs, modalOpen, step, selectedPlan, extractedVoters,
                   messageTemplate, isProcessing, paymentId, launched, paymentPageOpened,
                   storageVars, consoleVars>>

\* Limit voters based on plan: data.data.voters.slice(0, maxVoters)
LimitVoters(voters, maxVoters) == Slice0(voters, maxVoters)

\* data.data.voters.length > maxVoters
OverPlanLimit(voters, maxVoters) == JsGreater(Len(voters), maxVoters)

\* handleFileUpload after its await: the extraction response
ExtractResponse(i, r) ==
    /\ i \in 1..Len(inflight)
    /\ inflight[i].kind = "extract"
    /\ inflight[i].live
    /\ inflight' = RemoveAt(inflight, i)
    /\ isExtracting' = FALSE
    /\ IF r.outcome = "ok"
       THEN LET maxVoters == inflight[i].plan.maxMessages
                voters == LimitVoters(Source(r.n), maxVoters)
            IN /\ error' = IF OverPlanLimit(Source(r.n), maxVoters)
                           THEN "Plan limit: Only first voters loaded"
                           ELSE error
               /\ extractedVoters' = voters
               /\ step' = 2
       ELSE /\ error' = IF r.outcome = "fail"
                        THEN OrElse(r.detail, "Failed to extract voters")
                        ELSE "Server error. Make sure backend is running."
            /\ UNCHANGED <<extractedVoters, step>>
    /\ UNCHANGED <<isDevUser, runs, modalOpen, selectedPlan, votersFile, messageTemplate,
                   isProcessing, paymentId, launched, paymentPageOpened, storageVars,
                   consoleVars>>

-----------------------------------------------------------------------------
(* PaymentModal: composition, payment, verification, launch *)

\* textarea onChange: setMessageTemplate(e.target.value)
EditMessage(m) ==
    /\ modalOpen /\ step = 2
    /\ messageTemplate' = m
    /\ UNCHANGED <<isDevUser, runs, modalOpen, step, selectedPlan, votersFile, extractedVoters,
                   isExtracting, isProcessing, error, paymentId, launched, inflight,
                   paymentPageOpened, storageVars, consoleVars>>

\* a variant of SkipsPayment that lets every operator skip payment
AlwaysSkipsPayment(dev) == TRUE

NeverSkipsPayment(dev) == FALSE

\* the branch of handleProceedToPayment: dev users skip payment
SkipsPayment(dev) == dev

\* a variant of PaymentStep that skips the payment step
PaymentStepSkipped == 3 + 1

\* the step handleProceedToPayment sets for a paying operator
PaymentStep == 3

\* handleProceedToPayment, with handleDevStartCampaign up to its await for a
\* dev user.  The step-2 button carries no disabled attribute.  The start
\* body reads messageTemplate from the closure, before the default is set.
handleProceedToPayment ==
    /\ modalOpen /\ step = 2
    /\ messageTemplate' = IF Trim(messageTemplate) = <<>> THEN defaultMessage
                          ELSE messageTemplate
    /\ IF SkipsPayment(isDevUser)
       THEN /\ Len(inflight) < MaxInFlight
            /\ isProcessing' = TRUE
            /\ error' = ""
            /\ inflight' = Append(inflight,
                    Request("start", "handleDevStartCampaign", getDevPlan, extractedVoters,
                            MessageOrDefault(messageTemplate), <<>>))
            /\ UNCHANGED step
       ELSE /\ step' = PaymentStep
            /\ UNCHANGED <<isProcessing, error, inflight>>
    /\ UNCHANGED <<isDevUser, runs, modalOpen, selectedPlan, votersFile, extractedVoters,
                   isExtracting, paymentId, launched, paymentPageOpened, storageVars,
                   consoleVars>>

\* handlePayment: store the pending campaign, open the payment page, setStep(4)
handlePayment ==
    /\ modalOpen /\ step = 3
    /\ pendingCampaign' = << [voters |-> extractedVoters,
                              message |-> sanitizeInput(MessageOrDefault(messageTemplate)),
                              plan |-> selectedPlan] >>
    /\ paymentPageOpened' = TRUE
    /\ step' = 4
    /\ UNCHANGED <<isDevUser, runs, modalOpen, selectedPlan, votersFile, extractedVoters,
                   messageTemplate, isExtracting, isProcessing, error, paymentId, launched,
                   inflight, userCampaigns, paidCampaign, navState, verifiedRefs,
                   consoleVars>>

\* a variant of BackToPayment whose back button returns to the message step
BackToComposition ==
    /\ modalOpen /\ step = 4
    /\ step' = 2
    /\ UNCHANGED <<isDevUser, runs, modalOpen, selectedPlan, votersFile, extractedVoters,
                   messageTemplate, isExtracting, isProcessing, error, paymentId, launched,
                   inflight, paymentPageOpened, storageVars, consoleVars>>

\* a variant of BackToPayment that also resets the voter list
BackToPaymentClearingList ==
    /\ modalOpen /\ step = 4
    /\ step' = 3
    /\ extractedVoters' = <<>>
    /\ UNCHANGED <<isDevUser, runs, modalOpen, selectedPlan, votersFile,
                   messageTemplate, isExtracting, isProcessing, error, paymentId, launched,
                   inflight, paymentPageOpened, storageVars, consoleVars>>

\* step 4 back button: setStep(3)
BackToPayment ==
    /\ modalOpen /\ step = 4
    /\ step' = 3
    /\ UNCHANGED <<isDevUser, runs, modalOpen, selectedPlan, votersFile, extractedVoters,
                   messageTemplate, isExtracting, isProcessing, error, paymentId, launched,
                   inflight, paymentPageOpened, storageVars, consoleVars>>

\* payment-id input onChange: setPaymentId(e.target.value.trim())
EditPaymentId(v) ==
    /\ modalOpen /\ step = 4
    /\ paymentId' = Trim(v)
    /\ UNCHANGED <<isDevUser, runs, modalOpen, step, selectedPlan, votersFile, extractedVoters,
                   messageTemplate, isExtracting, isProcessing, error, launched, inflight,
                   paymentPageOpened, storageVars, consoleVars>>

\* handleVerifyPayment up to its first await
handleVerifyPayment ==
    /\ modalOpen /\ step = 4 /\ ~VerifyDisabled
    /\ IF ~paymentIdPattern(paymentId)
       THEN /\ error' = "Invalid Payment ID format. It should look like: pay_xxxxxxxxxxxxxxx"
            /\ isProcessing' = FALSE
            /\ UNCHANGED inflight
       ELSE /\ Len(inflight) < MaxInFlight
            /\ error' = ""
            /\ isProcessing' = TRUE
            /\ inflight' = Append(inflight,
                    Request("verify", "handleVerifyPayment", selectedPlan, extractedVoters,
                            MessageOrDefault(messageTemplate), paymentId))
    /\ UNCHANGED <<isDevUser, runs, modalOpen, step, selectedPlan, votersFile, extractedVoters,
                   messageTemplate, isExtracting, paymentId, launched, paymentPageOpened,
                   storageVars, consoleVars>>

\* the body of the verify-payment request
VerifyBody(req) ==
    [payment_id |-> req.paymentId, plan_id |-> req.plan.id,
     amount |-> PriceAmount(req.plan.price)]

\* the body of the campaign/start request
StartBody(req) ==
    IF req.by = "handleDevStartCampaign"
    THEN [voters_data |-> req.voters, message_template |-> req.message,
          plan_id |-> "dev", max_messages |-> Num(999999), payment_id |-> <<>>]
    ELSE [voters_data |-> req.voters, message_template |-> req.message,
          plan_id |-> req.plan.id, max_messages |-> req.plan.maxMessages,
          payment_id |-> req.paymentId]

\* a variant of Verified without the check of verifyData.verified
VerifiedIgnored(r) == TRUE

\* if (!verifyData.verified) ... return
Verified(r) == r.outcome = "verified"

\* a variant of RejectionError without the fallback text
RejectionErrorNoFallback(r) == r.message

\* setError(verifyData.message || 'Payment verification failed...')
RejectionError(r) ==
    OrElse(r.message, "Payment verification failed. Please check your Payment ID.")

\* handleVerifyPayment between its two awaits: the verification response.
\* On verified the handler goes on to the start request with the same closure.
VerifyResponse(i, r) ==
    /\ i \in 1..Len(inflight)
    /\ inflight[i].kind = "verify"
    /\ IF r.outcome # "throw" /\ Verified(r)
       THEN /\ inflight' = [inflight EXCEPT ![i].kind = "start"]
            /\ verifiedRefs' = IF r.outcome = "verified"
                               THEN verifiedRefs \cup {inflight[i].paymentId}
                               ELSE verifiedRefs
            /\ UNCHANGED <<error, isProcessing>>
       ELSE /\ inflight' = RemoveAt(inflight, i)
            /\ UNCHANGED verifiedRefs
            /\ IF inflight[i].live
               THEN /\ error' = IF r.outcome = "throw"
                                THEN "Failed to verify payment. Please try again."
                                ELSE RejectionError(r)
                    /\ isProcessing' = FALSE
               ELSE UNCHANGED <<error, isProcessing>>
    /\ UNCHANGED <<isDevUser, runs, modalOpen, step, selectedPlan, votersFile, extractedVoters,
                   messageTemplate, isExtracting, paymentId, launched, paymentPageOpened,
                   userCampaigns, pendingCampaign, paidCampaign, navState, consoleVars>>

\* lines 285-301: the record read from storage (or the default object), then
\* replaced for another plan or decremented for the same plan
UpdatedUserData(stored, plan, pid) ==
    LET userData == IF stored # <<>> THEN stored[1]
                    ELSE [planId |-> NoId, total |-> Num(0), remaining |-> Num(0),
                          paymentId |-> <<>>]
    IN IF userData.planId # plan.id
       THEN [planId |-> plan.id, total |-> plan.campaigns,
             remaining |-> JsSub(plan.campaigns, Num(1)), paymentId |-> pid]
       ELSE [userData EXCEPT !.remaining = MathMax(Num(0), JsSub(userData.remaining, Num(1)))]

\* localStorage.setItem(..., JSON.stringify(userData)) as read back by JSON.parse
StoredUserData(userData) ==
    [userData EXCEPT !.total = JsonValue(@), !.remaining = JsonValue(@)]

\* lines 280-303: the quota record after the start response; it is written
\* inside if (data.success) of handleVerifyPayment only
QuotaAfterStart(stored, req, r) ==
    IF r.outcome = "ok" /\ req.by = "handleVerifyPayment"
    THEN << StoredUserData(UpdatedUserData(stored, req.plan, req.paymentId)) >>
    ELSE stored

StartErrorSilent(req, r) == ""

\* the error a failed start leaves in the slot
StartError(req, r) ==
    IF r.outcome = "fail" THEN OrElse(r.detail, "Failed to start campaign")
    ELSE IF req.by = "handleDevStartCampaign"
         THEN "Failed to start campaign. Please try again."
         ELSE "Failed to verify payment. Please try again."

\* the continuation of handleVerifyPayment or handleDevStartCampaign after
\* the start request.  On success: storage writes, onClose(), navigate().
\* onClose is the caller's setter, so it closes whichever modal is mounted.
StartResponse(i, r) ==
    /\ i \in 1..Len(inflight)
    /\ inflight[i].kind = "start"
    /\ LET req == inflight[i]
       IN IF r.outcome = "ok"
          THEN /\ IF req.by = "handleVerifyPayment"
                  THEN /\ pendingCampaign' = <<>>
                       /\ paidCampaign' = << [campaignId |-> r.campaign_id,
                                              paymentId |-> req.paymentId,
                                              isDev |-> FALSE] >>
                  ELSE /\ paidCampaign' = << [campaignId |-> r.campaign_id,
                                              paymentId |-> <<>>, isDev |-> TRUE] >>
                       /\ UNCHANGED pendingCampaign
               /\ userCampaigns' = QuotaAfterStart(userCampaigns, req, r)
               /\ navState' = << [campaignId |-> r.campaign_id, autoStart |-> TRUE,
                                  voters |-> req.voters, message |-> req.message] >>
               /\ modalOpen' = FALSE
               /\ launched' = IF req.live THEN TRUE
                              ELSE IF modalOpen THEN FALSE ELSE launched
               /\ inflight' = Orphaned(RemoveAt(inflight, i))
               /\ UnmountState
          ELSE /\ inflight' = RemoveAt(inflight, i)
               /\ userCampaigns' = QuotaAfterStart(userCampaigns, req, r)
               /\ IF req.live
                  THEN /\ error' = StartError(req, r)
                       /\ isProcessing' = FALSE
                  ELSE UNCHANGED <<error, isProcessing>>
               /\ UNCHANGED <<modalOpen, launched, step, selectedPlan, votersFile,
                              extractedVoters, messageTemplate, isExtracting, paymentId,
                              paymentPageOpened, pendingCampaign, paidCampaign, navState>>
    /\ UNCHANGED <<isDevUser, runs, verifiedRefs, consoleVars>>

-----------------------------------------------------------------------------
(* Dashboard (src/unnamed/part_001): the bounded log *)

\* String.prototype.includes
Includes(s, sub) ==
    \E i \in 1..(Len(s) - Len(sub) + 1) : SubSeq(s, i, i + Len(sub) - 1) = sub

\* the noise filter of addLog: stack traces and raw addresses are skipped
IsNoise(message) ==
    \/ Includes(message, <<"<", "u", "n", "k", "n", "o", "w", "n", ">">>)
    \/ Includes(message, <<"0", "x">>)
    \/ Includes(message, <<"S", "t", "a", "c", "k", "t", "r", "a", "c", "e">>)

\* prev.slice(-50)
LogKeep == 50

\* Array.prototype.slice(-n)
SliceLast(arr, n) ==
    IF Len(arr) <= n THEN arr ELSE SubSeq(arr, Len(arr) - n + 1, Len(arr))

addLogPrepending(L, message, type) ==
    IF IsNoise(message) THEN L
    ELSE [logs |-> <<[id |-> L.seq + 1, message |-> message, type |-> type]>>
                       \o SliceLast(L.logs, LogKeep),
          seq |-> L.seq + 1]

\* addLog(message, type) on L = [logs, seq]:
\* setLogs(prev => [...prev.slice(-50), {id, timestamp, message, type}]).
\* The entry's id stands for Date.now(); the wall-clock timestamp is left out.
addLog(L, message, type) ==
    IF IsNoise(message) THEN L
    ELSE [logs |-> Append(SliceLast(L.logs, LogKeep),
                          [id |-> L.seq + 1, message |-> message, type |-> type]),
          seq |-> L.seq + 1]

\* the log state a handler starts from
CurLog == [logs |-> logs, seq |-> logSeq]

RECURSIVE AddLogs(_, _, _)
\* lines.forEach(l => addLog(l, type))
AddLogs(L, lines, type) ==
    IF lines = <<>> THEN L
    ELSE AddLogs(addLog(L, Head(lines), type), Tail(lines), type)

-----------------------------------------------------------------------------
(* Dashboard: inputs *)

StatsPayloads ==
    { [total |-> 10, sent |-> 1, failed |-> 0, progress |-> 10],
      [total |-> 10, sent |-> 2, failed |-> 0, progress |-> 20] }

InitialStats == [total |-> 0, sent |-> 0, failed |-> 0, progress |-> 0]

NoStats == <<>>

TelemetryEvent(type, message, log_type, st) ==
    [type |-> type, message |-> message, log_type |-> log_type, stats |-> st]

\* the events the worker may send on a telemetry connection
TelemetryEvents ==
    { TelemetryEvent("log", m, "info", st) :
        m \in {<<"A">>, <<"B">>, <<"a", "t", " ", "0", "x", "7", "f">>},
                st \in {NoStats} \cup {<<p>> : p \in StatsPayloads} }
    \cup { TelemetryEvent("stats", <<>>, "", <<p>>) : p \in StatsPayloads }
    \cup { TelemetryEvent("complete", <<>>, "", NoStats),
           TelemetryEvent("error", <<"E", "n", "g", "i", "n", "e", " ", "c", "r", "a", "s",
                   "h", "e", "d">>, "", NoStats),
           TelemetryEvent("qr_waiting", <<>>, "", NoStats),
           TelemetryEvent("qr_ready", <<>>, "", NoStats),
           TelemetryEvent("whatsapp_ready", <<>>, "", NoStats),
           TelemetryEvent("ping", <<>>, "", NoStats) }

\* the events of the ring behaviour: sequential log events
RingTelemetryEvents ==
    { TelemetryEvent("log", <<"A">>, "info", st) :
        st \in {NoStats} \cup {<<p>> : p \in StatsPayloads} }

DashCampaignIds == {<<"c", "1">>, <<"c", "2">>}

Asha == [NAME |-> <<"A", "s", "h", "a">>, MOBILE |-> <<"9", "8", "7", "6", "5", "4", "3", "2",
        "1", "0">>]
Bala == [NAME |-> <<"B", "a", "l", "a">>, MOBILE |-> <<"N", "/", "A">>]

DashFiles ==
    { [name |-> <<"a", ".", "p", "d", "f">>, text |-> <<>>],
      [name |-> <<"b", ".", "C", "S", "V">>, text |-> <<"N", "A", "M", "E", ",", "P", "H", "O",
              "N", "E", "\n", "A", "s", "h", "a", ",", "9", "8", "7", "6", "5", "4", "3", "2",
              "1", "0", "\n", "B", "a", "l", "a", ",", "1", "2", "3", "4", "5", "\n">>],
      [name |-> <<"c", ".", "x", "l", "s", "x">>, text |-> <<>>],
      [name |-> <<"d", ".", "t", "x", "t">>, text |-> <<>>] }

\* responses of extract-pdf and upload-excel
UploadResponses ==
    { [outcome |-> "ok", voters |-> v, total_count |-> <<"2">>, with_mobile |-> <<"1">>,
       log |-> l, detail |-> <<>>] :
         v \in {<<>>, <<Asha, Bala>>}, l \in {<<>>, <<<<"p", "a", "g", "e", " ", "1">>, <<"p",
                 "t", "r", " ", "0", "x", "1", "f">>>>} }
    \cup { [outcome |-> "fail", voters |-> <<>>, total_count |-> <<>>, with_mobile |-> <<>>,
            log |-> <<>>, detail |-> <<"b", "a", "d", " ", "f", "i", "l", "e">>],
           [outcome |-> "throw", voters |-> <<>>, total_count |-> <<>>, with_mobile |-> <<>>,
            log |-> <<>>, detail |-> <<"F", "a", "i", "l", "e", "d", " ", "t", "o", " ", "f",
                    "e", "t", "c", "h">>] }

DashStartResponses ==
    { [outcome |-> "ok", campaign_id |-> c, detail |-> <<>>] : c \in DashCampaignIds }
    \cup { [outcome |-> "fail", campaign_id |-> <<>>, detail |-> <<"b", "u", "s", "y">>],
           [outcome |-> "throw", campaign_id |-> <<>>, detail |-> <<"F", "a", "i", "l", "e",
                   "d", " ", "t", "o", " ", "f", "e", "t", "c", "h">>] }

HealthResponses == {"ok", "not ok", "throw"}

DashRequest(kind, file, voters, message, campId) ==
    [kind |-> kind, file |-> file, voters |-> voters, message |-> message, campId |-> campId]

-----------------------------------------------------------------------------
(* Dashboard: health probe *)

\* checkBackendHealth after its await (the probe is dispatched on mount)
checkBackendHealth(r) ==
    /\ healthPending
    /\ healthPending' = FALSE
    /\ IF r = "ok"
       THEN LET L == addLog(CurLog, <<"B", "a", "c", "k", "e", "n", "d", " ", "s", "e", "r",
               "v", "e", "r", " ", "c", "o", "n", "n", "e", "c", "t", "e", "d">>, "success")
            IN /\ backendStatus' = "online"
               /\ logs' = L.logs /\ logSeq' = L.seq
       ELSE IF r = "throw"
       THEN LET L == addLog(CurLog,
                        <<"B", "a", "c", "k", "e", "n", "d", " ", "s", "e", "r", "v", "e", "r",
                                " ", "o", "f", "f", "l", "i", "n", "e", ".", " ", "R", "u",
                                "n", ":", " ", "c", "d", " ", "b", "a", "c", "k", "e", "n",
                                "d", " ", "&", "&", " ", "p", "y", "t", "h", "o", "n", " ",
                                "m", "a", "i", "n", ".", "p", "y">>, "error")
            IN /\ backendStatus' = "offline"
               /\ logs' = L.logs /\ logSeq' = L.seq
       ELSE UNCHANGED <<backendStatus, logs, logSeq>>
    /\ UNCHANGED <<connected, campaignId, isRunning, stats, qrCodeUrl, showQrModal, wsRef,
                   sockets, dashVoters, dashMessage, dashInflight, wizardVars, storageVars, dashMounted>>

-----------------------------------------------------------------------------
(* Dashboard: telemetry channel *)

\* wsRef.current.close(): a connection not yet closed starts closing
CloseSocket(socks, id) ==
    IF socks[id].state \in {"connecting", "open"}
    THEN [socks EXCEPT ![id].state = "closing"]
    ELSE socks

connectWebSocketKeepingPrevious(socks, ref, campId) ==
    [sockets |-> Append(socks, [campId |-> campId, state |-> "connecting"]),
     wsRef |-> <<Len(socks) + 1>>]

\* connectWebSocket(campId): close the previous connection, create the new
\* one, install its handlers, wsRef.current = ws
connectWebSocket(socks, ref, campId) ==
    LET closed == IF ref # <<>> THEN CloseSocket(socks, ref[1]) ELSE socks
    IN [sockets |-> Append(closed, [campId |-> campId, state |-> "connecting"]),
        wsRef |-> <<Len(socks) + 1>>]

WsOnOpenResettingStats(id) ==
    /\ id \in 1..Len(sockets)
    /\ sockets[id].state = "connecting"
    /\ sockets' = [sockets EXCEPT ![id].state = "open"]
    /\ connected' = TRUE
    /\ stats' = [total |-> Len(dashVoters), sent |-> 0, failed |-> 0, progress |-> 0]
    /\ LET L == addLog(CurLog, <<"W", "e", "b", "S", "o", "c", "k", "e", "t", " ", "c", "o",
            "n", "n", "e", "c", "t", "e", "d", " ", "-", " ", "r", "e", "c", "e", "i", "v",
            "i", "n", "g", " ", "l", "i", "v", "e", " ", "u", "p", "d", "a", "t", "e", "s">>,
            "success")
       IN logs' = L.logs /\ logSeq' = L.seq
    /\ UNCHANGED <<campaignId, isRunning, backendStatus, qrCodeUrl, showQrModal,
                   wsRef, healthPending, dashVoters, dashMessage, dashInflight,
                   wizardVars, storageVars, dashMounted>>

WsOnOpenSilent(id) ==
    /\ id \in 1..Len(sockets)
    /\ sockets[id].state = "connecting"
    /\ sockets' = [sockets EXCEPT ![id].state = "open"]
    /\ connected' = TRUE
    /\ UNCHANGED <<campaignId, isRunning, logs, logSeq, stats, backendStatus, qrCodeUrl,
                   showQrModal, wsRef, healthPending, dashVoters, dashMessage, dashInflight,
                   wizardVars, storageVars, dashMounted>>

\* ws.onopen
WsOnOpen(id) ==
    /\ id \in 1..Len(sockets)
    /\ sockets[id].state = "connecting"
    /\ sockets' = [sockets EXCEPT ![id].state = "open"]
    /\ connected' = TRUE
    /\ LET L == addLog(CurLog, <<"W", "e", "b", "S", "o", "c", "k", "e", "t", " ", "c", "o",
            "n", "n", "e", "c", "t", "e", "d", " ", "-", " ", "r", "e", "c", "e", "i", "v",
            "i", "n", "g", " ", "l", "i", "v", "e", " ", "u", "p", "d", "a", "t", "e", "s">>,
            "success")
       IN logs' = L.logs /\ logSeq' = L.seq
    /\ UNCHANGED <<campaignId, isRunning, stats, backendStatus, qrCodeUrl, showQrModal,
                   wsRef, healthPending, dashVoters, dashMessage, dashInflight,
                   wizardVars, storageVars, dashMounted>>

\* ws.onmessage: the log entry the event appends, if any
onmessageLog(L, data) ==
    CASE data.type = "log" -> addLog(L, data.message, data.log_type)
     [] data.type = "complete" -> addLog(L, <<"C", "a", "m", "p", "a", "i",
             "g", "n", " ", "c", "o", "m", "p", "l", "e", "t", "e", "d", "!">>,
             "success")
     [] data.type = "error" -> addLog(L, data.message, "error")
     [] data.type = "qr_waiting" ->
           addLog(L, <<"W", "a", "i", "t", "i", "n", "g", " ", "f", "o", "r",
                   " ", "W", "h", "a", "t", "s", "A", "p", "p", " ", "Q", "R",
                   " ", "s", "c", "a", "n", ".", ".", ".">>, "warning")
     [] data.type = "qr_ready" ->
           addLog(L, <<"Q", "R", " ", "C", "o", "d", "e", " ", "r", "e", "a",
                   "d", "y", " ", "-", " ", "S", "c", "a", "n", " ", "w", "i",
                   "t", "h", " ", "W", "h", "a", "t", "s", "A", "p", "p", "!">>,
                   "info")
     [] data.type = "whatsapp_ready" ->
           addLog(L, <<"W", "h", "a", "t", "s", "A", "p", "p", " ", "c", "o",
                   "n", "n", "e", "c", "t", "e", "d", "!">>, "success")
     [] OTHER -> L

onmessageStatsStandaloneOnly(cur, data) ==
    IF data.type = "stats" /\ data.stats # NoStats THEN data.stats[1] ELSE cur

\* ws.onmessage: the counters after the event; a log event replaces them only
\* if it carries stats
onmessageStats(cur, data) ==
    IF data.type \in {"log", "stats"} /\ data.stats # NoStats THEN data.stats[1] ELSE cur

\* ws.onmessage: isRunning after the event (setIsRunning(false) on complete)
onmessageRunning(cur, data) ==
    IF data.type = "complete" THEN FALSE ELSE cur

\* ws.onmessage: qrCodeUrl after the event; the URL's ?t= timestamp is left out
onmessageQrCodeUrl(cur, data) ==
    CASE data.type = "qr_ready" -> <<"qr">>
      [] data.type = "whatsapp_ready" -> <<>>
      [] OTHER -> cur

onmessageShowQrModalOnWaiting(cur, data) ==
    CASE data.type \in {"qr_waiting", "qr_ready"} -> TRUE
      [] data.type = "whatsapp_ready" -> FALSE
      [] OTHER -> cur

\* ws.onmessage: showQrModal after the event
onmessageShowQrModal(cur, data) ==
    CASE data.type = "qr_ready" -> TRUE
      [] data.type = "whatsapp_ready" -> FALSE
      [] OTHER -> cur

WsOnMessageClosingOnTerminal(id, data) ==
    /\ id \in 1..Len(sockets)
    /\ sockets[id].state = "open"
    /\ LET L == onmessageLog(CurLog, data)
       IN logs' = L.logs /\ logSeq' = L.seq
    /\ stats' = onmessageStats(stats, data)
    /\ isRunning' = onmessageRunning(isRunning, data)
    /\ qrCodeUrl' = onmessageQrCodeUrl(qrCodeUrl, data)
    /\ showQrModal' = onmessageShowQrModal(showQrModal, data)
    /\ sockets' = IF data.type \in {"complete", "error"}
                  THEN CloseSocket(sockets, id) ELSE sockets
    /\ UNCHANGED <<connected, campaignId, backendStatus, wsRef, healthPending,
                   dashVoters, dashMessage, dashInflight, wizardVars, storageVars, dashMounted>>

\* ws.onmessage; a connection delivers messages only while it is open
WsOnMessage(id, data) ==
    /\ id \in 1..Len(sockets)
    /\ sockets[id].state = "open"
    /\ LET L == onmessageLog(CurLog, data)
       IN logs' = L.logs /\ logSeq' = L.seq
    /\ stats' = onmessageStats(stats, data)
    /\ isRunning' = onmessageRunning(isRunning, data)
    /\ qrCodeUrl' = onmessageQrCodeUrl(qrCodeUrl, data)
    /\ showQrModal' = onmessageShowQrModal(showQrModal, data)
    /\ UNCHANGED <<connected, campaignId, backendStatus, wsRef, sockets, healthPending,
                   dashVoters, dashMessage, dashInflight, wizardVars, storageVars, dashMounted>>

WsOnCloseStoppingRun(id) ==
    /\ id \in 1..Len(sockets)
    /\ sockets[id].state # "closed"
    /\ sockets' = [sockets EXCEPT ![id].state = "closed"]
    /\ connected' = FALSE
    /\ isRunning' = FALSE
    /\ LET L == addLog(CurLog, <<"W", "e", "b", "S", "o", "c", "k", "e", "t", " ", "d", "i",
            "s", "c", "o", "n", "n", "e", "c", "t", "e", "d">>, "warning")
       IN logs' = L.logs /\ logSeq' = L.seq
    /\ UNCHANGED <<campaignId, stats, backendStatus, qrCodeUrl, showQrModal,
                   wsRef, healthPending, dashVoters, dashMessage, dashInflight,
                   wizardVars, storageVars, dashMounted>>

\* ws.onclose: the close handshake completed, or the connection was lost
WsOnClose(id) ==
    /\ id \in 1..Len(sockets)
    /\ sockets[id].state # "closed"
    /\ sockets' = [sockets EXCEPT ![id].state = "closed"]
    /\ connected' = FALSE
    /\ LET L == addLog(CurLog, <<"W", "e", "b", "S", "o", "c", "k", "e", "t", " ", "d", "i",
            "s", "c", "o", "n", "n", "e", "c", "t", "e", "d">>, "warning")
       IN logs' = L.logs /\ logSeq' = L.seq
    /\ UNCHANGED <<campaignId, isRunning, stats, backendStatus, qrCodeUrl, showQrModal,
                   wsRef, healthPending, dashVoters, dashMessage, dashInflight,
                   wizardVars, storageVars, dashMounted>>


\* QR modal, "Refresh QR" button (rendered while showQrModal && qrCodeUrl):
\* setQrCodeUrl of a fresh URL; the URL's ?t= timestamp is left out
refreshQr ==
    /\ showQrModal /\ qrCodeUrl # <<>>
    /\ qrCodeUrl' = <<"qr">>
    /\ UNCHANGED <<connected, campaignId, isRunning, logs, stats, backendStatus,
                   showQrModal, wsRef, sockets, logSeq, healthPending, dashVoters,
                   dashMessage, dashInflight, wizardVars, storageVars, dashMounted>>

\* QR modal, <img onError>: the QR image failed to load
qrImageError ==
    /\ showQrModal /\ qrCodeUrl # <<>>
    /\ LET L == addLog(CurLog, <<"F", "a", "i", "l", "e", "d", " ", "t", "o", " ", "l", "o",
            "a", "d", " ", "Q", "R", " ", "i", "m", "a", "g", "e">>, "error")
       IN logs' = L.logs /\ logSeq' = L.seq
    /\ UNCHANGED <<connected, campaignId, isRunning, stats, backendStatus, qrCodeUrl,
                   showQrModal, wsRef, sockets, healthPending, dashVoters, dashMessage,
                   dashInflight, wizardVars, storageVars, dashMounted>>

\* QR modal, "Close" button: setShowQrModal(false)
closeQrModal ==
    /\ showQrModal /\ qrCodeUrl # <<>>
    /\ showQrModal' = FALSE
    /\ UNCHANGED <<connected, campaignId, isRunning, logs, stats, backendStatus,
                   qrCodeUrl, wsRef, sockets, logSeq, healthPending, dashVoters,
                   dashMessage, dashInflight, wizardVars, storageVars, dashMounted>>

-----------------------------------------------------------------------------
(* Dashboard: quick upload (PDF, Excel, CSV) *)

RECURSIVE Split(_, _)
\* String.prototype.split(sep) for a one-character separator
Split(s, sep) ==
    IF \E i \in 1..Len(s) : s[i] = sep
    THEN LET i == CHOOSE k \in 1..Len(s) : s[k] = sep /\ \A j \in 1..(k - 1) : s[j] # sep
         IN <<SubSeq(s, 1, i - 1)>> \o Split(SubSeq(s, i + 1, Len(s)), sep)
    ELSE <<s>>

\* p.trim().replace(/"/g, '')
CsvField(p) == SelectSeq(Trim(p), LAMBDA c : c # "\"")

\* parts[i].replace(/\D/g, '')
DigitsOnly(s) == SelectSeq(s, LAMBDA c : c \in Digits)

IsTenDigits(phone) == Len(phone) = 10

\* phone.length === 10 && /^[6-9]/.test(phone)
IsMobile(phone) == Len(phone) = 10 /\ phone[1] \in {"6", "7", "8", "9"}

\* one data line of the CSV: the contact it yields (<<>> or <<contact>>)
ParseCsvLine(line) ==
    LET raw == Split(line, ",")
        parts == [i \in 1..Len(raw) |-> CsvField(raw[i])]
        hits == {i \in 2..Len(parts) : IsMobile(DigitsOnly(parts[i]))}
    IN IF Len(parts) >= 2 /\ hits # {}
       THEN LET first == CHOOSE i \in hits : \A j \in hits : i <= j
            IN << [NAME |-> parts[1], MOBILE |-> DigitsOnly(parts[first])] >>
       ELSE <<>>

RECURSIVE ParseCsvLines(_, _)
ParseCsvLines(lines, index) ==
    IF lines = <<>> THEN <<>>
    ELSE (IF index = 0 THEN <<>> ELSE ParseCsvLine(Head(lines)))
         \o ParseCsvLines(Tail(lines), index + 1)

\* the CSV branch of handleQuickUpload: non-blank lines, the first is the header
ParseCsv(text) ==
    ParseCsvLines(SelectSeq(Split(text, "\n"), LAMBDA line : Trim(line) # <<>>), 0)

DigitChar(d) == <<"0", "1", "2", "3", "4", "5", "6", "7", "8", "9">>[d + 1]

RECURSIVE NumberToString(_)
\* `${n}` for a non-negative integer
NumberToString(n) ==
    IF n < 10 THEN <<DigitChar(n)>>
    ELSE NumberToString(n \div 10) \o <<DigitChar(n % 10)>>

FileKind(file) ==
    LET fileName == ToLowerCase(file.name)
    IN IF EndsWith(fileName, <<".", "p", "d", "f">>) THEN "pdf"
       ELSE IF EndsWith(fileName, <<".", "c", "s", "v">>) THEN "csv"
       ELSE IF EndsWith(fileName, <<".", "x", "l", "s", "x">>) \/ EndsWith(fileName, <<".",
               "x", "l", "s">>) THEN "excel"
       ELSE "unsupported"

\* handleQuickUpload up to its await
handleQuickUpload(file) ==
    /\ IF FileKind(file) = "unsupported"
       THEN LET L == addLog(CurLog,
                        <<"P", "l", "e", "a", "s", "e", " ", "u", "p", "l", "o", "a", "d", " ",
                                "a", " ", "P", "D", "F", ",", " ", "E", "x", "c", "e", "l",
                                " ", "(", ".", "x", "l", "s", "x", ",", " ", ".", "x", "l",
                                "s", ")", " ", "o", "r", " ", "C", "S", "V", " ", "f", "i",
                                "l", "e">>, "error")
            IN /\ logs' = L.logs /\ logSeq' = L.seq
               /\ UNCHANGED dashInflight
       ELSE LET L == addLog(CurLog, <<"L", "o", "a", "d", "i", "n", "g",
               " ">> \o file.name \o <<".", ".", ".">>, "info")
            IN /\ Len(dashInflight) < MaxInFlight
               /\ logs' = L.logs /\ logSeq' = L.seq
               /\ dashInflight' = Append(dashInflight,
                      DashRequest(FileKind(file), <<file>>, <<>>, <<>>, <<>>))
    /\ UNCHANGED <<connected, campaignId, isRunning, stats, backendStatus, qrCodeUrl,
                   showQrModal, wsRef, sockets, healthPending, dashVoters, dashMessage,
                   wizardVars, storageVars, dashMounted>>

\* handleQuickUpload after its await
QuickUploadResponse(i, r) ==
    /\ i \in 1..Len(dashInflight)
    /\ dashInflight[i].kind \in {"pdf", "csv", "excel"}
    /\ dashInflight' = RemoveAt(dashInflight, i)
    /\ LET req == dashInflight[i]
           csvVoters == ParseCsv(req.file[1].text)
           newVoters ==
               CASE r.outcome = "throw" -> dashVoters
                 [] req.kind = "csv" -> IF Len(csvVoters) > 0 THEN csvVoters ELSE dashVoters
                 [] r.outcome = "ok" -> r.voters
                 [] OTHER -> dashVoters
           L == CASE r.outcome = "throw" ->
                       addLog(CurLog, <<"F", "i", "l", "e", " ", "e", "r", "r", "o", "r", ":",
                               " ">> \o r.detail, "error")
                  [] req.kind = "csv" ->
                       IF Len(csvVoters) > 0
                       THEN addLog(CurLog, <<"L", "o", "a", "d", "e", "d",
                               " ">> \o NumberToString(Len(csvVoters))
                                       \o <<" ", "v", "o", "t", "e", "r", "s", " ", "w", "i",
                                               "t", "h", " ", "p", "h", "o", "n", "e", " ",
                                               "n", "u", "m", "b", "e", "r", "s", " ", "f",
                                               "r", "o", "m", " ", "C", "S", "V">>, "success")
                       ELSE addLog(CurLog,
                              <<"N", "o", " ", "v", "a", "l", "i", "d", " ", "p", "h", "o",
                                      "n", "e", " ", "n", "u", "m", "b", "e", "r", "s", " ",
                                      "f", "o", "u", "n", "d", " ", "i", "n", " ", "C", "S",
                                      "V", ".", " ", "E", "x", "p", "e", "c", "t", "e", "d",
                                      " ", "c", "o", "l", "u", "m", "n", "s", ":", " ", "N",
                                      "A", "M", "E", ",", " ", "P", "H", "O", "N", "E">>,
                              "error")
                  [] req.kind = "pdf" /\ r.outcome = "ok" ->
                       AddLogs(addLog(CurLog, <<"E", "x", "t", "r", "a", "c", "t", "e", "d",
                               " ">> \o r.total_count \o <<" ", "v", "o", "t", "e", "r", "s",
                               " ", "(">>
                                       \o r.with_mobile \o <<" ", "w", "i", "t", "h", " ", "m",
                                               "o", "b", "i", "l", "e", ")">>, "success"),
                               r.log, "info")
                  [] req.kind = "pdf" ->
                       addLog(CurLog, <<"P", "D", "F", " ", "e", "x", "t", "r", "a", "c", "t",
                               "i", "o", "n", " ", "f", "a", "i", "l", "e", "d", ":",
                               " ">> \o r.detail, "error")
                  [] r.outcome = "ok" ->
                       addLog(CurLog, <<"L", "o", "a", "d", "e", "d",
                               " ">> \o NumberToString(Len(r.voters))
                                       \o <<" ", "v", "o", "t", "e", "r", "s", " ", "f", "r",
                                               "o", "m", " ", "E", "x", "c", "e", "l">>, "success")
                  [] OTHER ->
                       addLog(CurLog, <<"E", "x", "c", "e", "l", " ", "p", "a", "r", "s", "i",
                               "n", "g", " ", "f", "a", "i", "l", "e", "d", ":",
                               " ">> \o r.detail, "error")
       IN /\ dashVoters' = newVoters
          /\ logs' = L.logs /\ logSeq' = L.seq
    /\ UNCHANGED <<connected, campaignId, isRunning, stats, backendStatus, qrCodeUrl,
                   showQrModal, wsRef, sockets, healthPending, dashMessage,
                   wizardVars, storageVars, dashMounted>>

-----------------------------------------------------------------------------
(* Dashboard: start and stop *)

startCampaignUnchecked ==
    /\ backendStatus = "online" /\ ~isRunning
    /\ LET L == addLog(CurLog, <<"S", "t", "a", "r", "t", "i", "n", "g", " ", "c", "a",
            "m", "p", "a", "i", "g", "n", ".", ".", ".">>, "system")
       IN /\ Len(dashInflight) < MaxInFlight
          /\ logs' = L.logs /\ logSeq' = L.seq
          /\ isRunning' = TRUE
          /\ dashInflight' = Append(dashInflight,
                 DashRequest("start", <<>>, dashVoters, dashMessage, <<>>))
    /\ UNCHANGED <<connected, campaignId, stats, backendStatus, qrCodeUrl, showQrModal,
                   wsRef, sockets, healthPending, dashVoters, dashMessage,
                   wizardVars, storageVars, dashMounted>>

\* startCampaign up to its await; the button is disabled unless the backend
\* is online, and calls stopCampaign while isRunning
startCampaign ==
    /\ backendStatus = "online" /\ ~isRunning
    /\ IF Len(dashVoters) = 0
       THEN LET L == addLog(CurLog, <<"N", "o", " ", "v", "o", "t", "e", "r", "s", " ", "l",
               "o", "a", "d", "e", "d", ".", " ", "U", "p", "l", "o", "a", "d", " ", "a", " ",
               "P", "D", "F", " ", "f", "i", "r", "s", "t", ".">>, "warning")
            IN /\ logs' = L.logs /\ logSeq' = L.seq
               /\ UNCHANGED <<isRunning, dashInflight>>
       ELSE LET L == addLog(CurLog, <<"S", "t", "a", "r", "t", "i", "n", "g", " ", "c", "a",
               "m", "p", "a", "i", "g", "n", ".", ".", ".">>, "system")
            IN /\ Len(dashInflight) < MaxInFlight
               /\ logs' = L.logs /\ logSeq' = L.seq
               /\ isRunning' = TRUE
               /\ dashInflight' = Append(dashInflight,
                      DashRequest("start", <<>>, dashVoters, dashMessage, <<>>))
    /\ UNCHANGED <<connected, campaignId, stats, backendStatus, qrCodeUrl, showQrModal,
                   wsRef, sockets, healthPending, dashVoters, dashMessage,
                   wizardVars, storageVars, dashMounted>>

\* startCampaign after its await
StartCampaignResponse(i, r) ==
    /\ i \in 1..Len(dashInflight)
    /\ dashInflight[i].kind = "start"
    /\ dashInflight' = RemoveAt(dashInflight, i)
    /\ IF r.outcome = "ok"
       THEN LET ws == connectWebSocket(sockets, wsRef, r.campaign_id)
                L == addLog(CurLog, <<"C", "a", "m", "p", "a", "i", "g", "n",
                        " ">> \o r.campaign_id \o <<" ", "s", "t", "a", "r", "t", "e", "d">>,
                        "success")
            IN /\ Len(sockets) < MaxSockets
               /\ campaignId' = <<r.campaign_id>>
               /\ sockets' = ws.sockets
               /\ wsRef' = ws.wsRef
               /\ logs' = L.logs /\ logSeq' = L.seq
               /\ UNCHANGED isRunning
       ELSE LET L == IF r.outcome = "fail"
                     THEN addLog(CurLog, <<"F", "a", "i", "l", "e", "d", " ", "t", "o", " ",
                             "s", "t", "a", "r", "t", ":", " ">> \o r.detail, "error")
                     ELSE addLog(CurLog, <<"S", "t", "a", "r", "t", " ", "e", "r", "r", "o",
                             "r", ":", " ">> \o r.detail, "error")
            IN /\ logs' = L.logs /\ logSeq' = L.seq
               /\ isRunning' = FALSE
               /\ UNCHANGED <<campaignId, sockets, wsRef>>
    /\ UNCHANGED <<connected, stats, backendStatus, qrCodeUrl, showQrModal, healthPending,
                   dashVoters, dashMessage, wizardVars, storageVars, dashMounted>>

\* stopCampaign up to its await; if (!campaignId) return
stopCampaign ==
    /\ backendStatus = "online" /\ isRunning
    /\ campaignId # <<>>
    /\ Len(dashInflight) < MaxInFlight
    /\ dashInflight' = Append(dashInflight,
           DashRequest("stop", <<>>, <<>>, <<>>, campaignId[1]))
    /\ UNCHANGED <<connected, campaignId, isRunning, logs, stats, backendStatus, qrCodeUrl,
                   showQrModal, wsRef, sockets, logSeq, healthPending, dashVoters,
                   dashMessage, wizardVars, storageVars, dashMounted>>

\* stopCampaign after its await: any response counts as stopped, a transport
\* failure is logged
StopCampaignResponse(i, outcome) ==
    /\ i \in 1..Len(dashInflight)
    /\ dashInflight[i].kind = "stop"
    /\ dashInflight' = RemoveAt(dashInflight, i)
    /\ IF outcome = "throw"
       THEN LET L == addLog(CurLog, <<"S", "t", "o", "p", " ", "e", "r", "r", "o", "r", ":",
               " ", "F", "a", "i", "l", "e", "d", " ", "t", "o", " ", "f", "e", "t", "c",
               "h">>, "error")
            IN /\ logs' = L.logs /\ logSeq' = L.seq
               /\ UNCHANGED isRunning
       ELSE LET L == addLog(CurLog, <<"C", "a", "m", "p", "a", "i", "g", "n", " ", "s", "t",
               "o", "p", "p", "e", "d">>, "warning")
            IN /\ logs' = L.logs /\ logSeq' = L.seq
               /\ isRunning' = FALSE
    /\ UNCHANGED <<connected, campaignId, stats, backendStatus, qrCodeUrl, showQrModal,
                   wsRef, sockets, healthPending, dashVoters, dashMessage,
                   wizardVars, storageVars, dashMounted>>

\* message textarea onChange
EditDashMessage(m) ==
    /\ dashMessage' = m
    /\ UNCHANGED <<connected, campaignId, isRunning, logs, stats, backendStatus, qrCodeUrl,
                   showQrModal, wsRef, sockets, logSeq, healthPending, dashVoters,
                   dashInflight, wizardVars, storageVars, dashMounted>>


-----------------------------------------------------------------------------
(* Initial state and next-state relations *)

InitWizard ==
    /\ isDevUser \in BOOLEAN
    /\ modalOpen = FALSE
    /\ launched = FALSE
    /\ step = 0
    /\ selectedPlan = PLANS[2]
    /\ votersFile = <<>>
    /\ extractedVoters = <<>>
    /\ messageTemplate = <<>>
    /\ isExtracting = FALSE
    /\ isProcessing = FALSE
    /\ error = ""
    /\ paymentId = <<>>
    /\ paymentPageOpened = FALSE
    /\ runs = 0
    /\ inflight = NoRequests
    /\ userCampaigns \in PriorUserCampaigns
    /\ pendingCampaign = <<>>
    /\ paidCampaign = <<>>
    /\ navState = <<>>
    /\ verifiedRefs = {}

\* the Dashboard as mounted: useState initial values, health probe dispatched
InitConsole ==
    /\ connected = FALSE
    /\ campaignId = <<>>
    /\ isRunning = FALSE
    /\ logs = <<>>
    /\ stats = InitialStats
    /\ backendStatus = "checking"
    /\ qrCodeUrl = <<>>
    /\ showQrModal = FALSE
    /\ wsRef = <<>>
    /\ sockets = <<>>
    /\ logSeq = 0
    /\ healthPending = TRUE
    /\ dashVoters = <<>>
    /\ dashMessage = <<>>
    /\ dashInflight = <<>>
    /\ dashMounted = TRUE

Init == InitWizard /\ InitConsole

NextWizard ==
    \/ \E p \in InitialPlans : OpenModal(p)
    \/ CloseModal
    \/ \E i \in 1..Len(PLANS) : handlePlanSelect(PLANS[i])
    \/ BackToPlanSelection
    \/ \E file \in Files : handleFileUpload(file)
    \/ \E i \in 1..MaxInFlight, r \in ExtractResponses : ExtractResponse(i, r)
    \/ \E m \in Messages : EditMessage(m)
    \/ handleProceedToPayment
    \/ handlePayment
    \/ BackToPayment
    \/ \E v \in PaymentIdInputs : EditPaymentId(v)
    \/ handleVerifyPayment
    \/ \E i \in 1..MaxInFlight, r \in VerifyResponses : VerifyResponse(i, r)
    \/ \E i \in 1..MaxInFlight, r \in StartResponses : StartResponse(i, r)

\* the campaign wizard
Spec == Init /\ [][NextWizard]_vars

\* lengths of the contact sequences around the plan ceilings (Ward 500,
\* Municipal 2000)
IngestSizes == {2, 501, 2001}

IngestResponses == ExtractResponsesOf(IngestSizes)

NextIngest ==
    \/ \E p \in InitialPlans : OpenModal(p)
    \/ CloseModal
    \/ \E i \in 1..Len(PLANS) : handlePlanSelect(PLANS[i])
    \/ BackToPlanSelection
    \/ \E file \in Files : handleFileUpload(file)
    \/ \E i \in 1..MaxInFlight, r \in IngestResponses : ExtractResponse(i, r)
    \/ \E m \in Messages : EditMessage(m)

\* the wizard up to Composition, with source documents longer than a plan allows
SpecIngest == Init /\ [][NextIngest]_vars

\* the operator's file in a console behaviour: a scanned roll
ConsoleFiles == {f \in DashFiles : FileKind(f) = "pdf"}

\* the extraction service's answers in a console behaviour: without log lines
ConsoleUploadResponses == {r \in UploadResponses : r.log = <<>>}

\* the worker's events in a console behaviour
ConsoleTelemetryEvents ==
    {e \in TelemetryEvents :
        \/ e.type \in {"stats", "complete"}
        \/ e.type = "log" /\ e.message = <<"A">> /\ e.stats # NoStats}

NextConsole ==
    \/ logSeq < MaxLogEvents /\ \E r \in HealthResponses : checkBackendHealth(r)
    \/ logSeq < MaxLogEvents /\ \E file \in ConsoleFiles : handleQuickUpload(file)
    \/ logSeq < MaxLogEvents
          /\ \E i \in 1..MaxInFlight, r \in ConsoleUploadResponses : QuickUploadResponse(i, r)
    \/ logSeq < MaxLogEvents /\ startCampaign
    \/ logSeq < MaxLogEvents
          /\ \E i \in 1..MaxInFlight, r \in DashStartResponses : StartCampaignResponse(i, r)
    \/ stopCampaign
    \/ logSeq < MaxLogEvents
          /\ \E i \in 1..MaxInFlight, o \in {"ok", "throw"} : StopCampaignResponse(i, o)
    \/ logSeq < MaxLogEvents /\ \E id \in 1..MaxSockets : WsOnOpen(id)
    \/ logSeq < MaxLogEvents
          /\ \E id \in 1..MaxSockets, data \in ConsoleTelemetryEvents : WsOnMessage(id, data)
    \/ logSeq < MaxLogEvents /\ \E id \in 1..MaxSockets : WsOnClose(id)

\* the Dashboard as mounted, the wizard not in use
InitMounted == Init /\ ~isDevUser /\ userCampaigns = <<>>

\* the execution console
SpecConsole == InitMounted /\ [][NextConsole]_vars

\* The console once a campaign runs and its telemetry connection is open:
\* health probe answered 200, b.CSV loaded, campaign c1 started, ws.onopen.
RingStart ==
    LET L0 == [logs |-> <<>>, seq |-> 0]
        L1 == addLog(L0, <<"B", "a", "c", "k", "e", "n", "d", " ", "s", "e", "r", "v", "e",
                "r", " ", "c", "o", "n", "n", "e", "c", "t", "e", "d">>, "success")
        L2 == addLog(L1, <<"L", "o", "a", "d", "i", "n", "g", " ", "b", ".", "C", "S", "V",
                ".", ".", ".">>, "info")
        L3 == addLog(L2, <<"L", "o", "a", "d", "e", "d", " ", "1", " ", "v", "o", "t", "e",
                "r", "s", " ", "w", "i", "t", "h", " ", "p", "h", "o", "n", "e", " ", "n", "u",
                "m", "b", "e", "r", "s", " ", "f", "r", "o", "m", " ", "C", "S", "V">>, "success")
        L4 == addLog(L3, <<"S", "t", "a", "r", "t", "i", "n", "g", " ", "c", "a", "m", "p",
                "a", "i", "g", "n", ".", ".", ".">>, "system")
        L5 == addLog(L4, <<"C", "a", "m", "p", "a", "i", "g", "n", " ", "c", "1", " ", "s",
                "t", "a", "r", "t", "e", "d">>, "success")
    IN addLog(L5, <<"W", "e", "b", "S", "o", "c", "k", "e", "t", " ", "c", "o", "n", "n", "e",
            "c", "t", "e", "d", " ", "-", " ", "r", "e", "c", "e", "i", "v", "i", "n", "g",
            " ", "l", "i", "v", "e", " ", "u", "p", "d", "a", "t", "e", "s">>, "success")

InitRing ==
    /\ InitWizard
    /\ connected = TRUE
    /\ campaignId = <<<<"c", "1">>>>
    /\ isRunning = TRUE
    /\ logs = RingStart.logs
    /\ stats = InitialStats
    /\ backendStatus = "online"
    /\ qrCodeUrl = <<>>
    /\ showQrModal = FALSE
    /\ wsRef = <<1>>
    /\ sockets = << [campId |-> <<"c", "1">>, state |-> "open"] >>
    /\ logSeq = RingStart.seq
    /\ healthPending = FALSE
    /\ dashVoters = << [NAME |-> <<"A", "s", "h", "a">>, MOBILE |-> <<"9", "8", "7", "6", "5",
            "4", "3", "2", "1", "0">>] >>
    /\ dashMessage = <<>>
    /\ dashInflight = <<>>
    /\ dashMounted = TRUE

\* log events pushed onto the open connection since RingStart
RingPushed == logSeq - RingStart.seq

NextRing ==
    /\ RingPushed < RingEvents
    /\ \E data \in RingTelemetryEvents : WsOnMessage(wsRef[1], data)

\* sequential log events on an open telemetry connection
SpecRing == InitRing /\ [][NextRing]_vars

\* The console with a contact list loaded: health probe answered 200, b.CSV
\* loaded, nothing started yet.
LoadedStart ==
    LET L0 == [logs |-> <<>>, seq |-> 0]
        L1 == addLog(L0, <<"B", "a", "c", "k", "e", "n", "d", " ", "s", "e", "r", "v", "e",
                "r", " ", "c", "o", "n", "n", "e", "c", "t", "e", "d">>, "success")
        L2 == addLog(L1, <<"L", "o", "a", "d", "i", "n", "g", " ", "b", ".", "C", "S", "V",
                ".", ".", ".">>, "info")
    IN addLog(L2, <<"L", "o", "a", "d", "e", "d", " ", "1", " ", "v", "o", "t", "e",
            "r", "s", " ", "w", "i", "t", "h", " ", "p", "h", "o", "n", "e", " ", "n", "u",
            "m", "b", "e", "r", "s", " ", "f", "r", "o", "m", " ", "C", "S", "V">>, "success")

InitChannel ==
    /\ InitWizard /\ ~isDevUser /\ userCampaigns = <<>>
    /\ connected = FALSE
    /\ campaignId = <<>>
    /\ isRunning = FALSE
    /\ logs = LoadedStart.logs
    /\ stats = InitialStats
    /\ backendStatus = "online"
    /\ qrCodeUrl = <<>>
    /\ showQrModal = FALSE
    /\ wsRef = <<>>
    /\ sockets = <<>>
    /\ logSeq = LoadedStart.seq
    /\ healthPending = FALSE
    /\ dashVoters = <<Asha>>
    /\ dashMessage = <<>>
    /\ dashInflight = <<>>
    /\ dashMounted = TRUE

\* log entries appended since LoadedStart
ChannelLogged == logSeq - LoadedStart.seq

\* the events that end a run
TerminalEvents == {e \in TelemetryEvents : e.type \in {"complete", "error"}}

NextChannel ==
    \/ ChannelLogged < ChannelEvents /\ startCampaign
    \/ ChannelLogged < ChannelEvents
          /\ \E i \in 1..MaxInFlight, r \in DashStartResponses : StartCampaignResponse(i, r)
    \/ stopCampaign
    \/ ChannelLogged < ChannelEvents
          /\ \E i \in 1..MaxInFlight, o \in {"ok", "throw"} : StopCampaignResponse(i, o)
    \/ ChannelLogged < ChannelEvents /\ \E id \in 1..MaxSockets : WsOnOpen(id)
    \/ ChannelLogged < ChannelEvents
          /\ \E id \in 1..MaxSockets, data \in TerminalEvents : WsOnMessage(id, data)
    \/ ChannelLogged < ChannelEvents /\ \E id \in 1..MaxSockets : WsOnClose(id)

\* the telemetry connection's life: campaigns started and stopped from the
\* console, connections opened, ended and closed
SpecChannel == InitChannel /\ [][NextChannel]_vars

InitTelemetry == InitRing /\ ~isDevUser /\ userCampaigns = <<>>

NextTelemetry ==
    \/ RingPushed < TelemetryLog
          /\ \E data \in TelemetryEvents : WsOnMessage(wsRef[1], data)
    \/ RingPushed < TelemetryLog /\ WsOnClose(wsRef[1])
    \/ refreshQr
    \/ RingPushed < TelemetryLog /\ qrImageError
    \/ closeQrModal

\* the events of one open telemetry connection, and the QR modal's buttons
SpecTelemetry == InitTelemetry /\ [][NextTelemetry]_vars

\* The wizard of a bypass account just launched campaign c1: storage written,
\* modal closed, navigate('/dashboard', {state}) done.
HandoffState ==
    /\ isDevUser = TRUE
    /\ modalOpen = FALSE
    /\ launched = TRUE
    /\ step = 0
    /\ selectedPlan = PLANS[2]
    /\ votersFile = <<>>
    /\ extractedVoters = <<>>
    /\ messageTemplate = <<>>
    /\ isExtracting = FALSE
    /\ isProcessing = FALSE
    /\ error = ""
    /\ paymentId = <<>>
    /\ paymentPageOpened = FALSE
    /\ runs = 1
    /\ inflight = NoRequests
    /\ userCampaigns = <<>>
    /\ pendingCampaign = <<>>
    /\ paidCampaign = << [campaignId |-> "c1", paymentId |-> <<>>, isDev |-> TRUE] >>
    /\ navState = << [campaignId |-> "c1", autoStart |-> TRUE, voters |-> Source(2),
                      message |-> defaultMessage] >>
    /\ verifiedRefs = {}

\* the route /dashboard renders the Dashboard, which mounts
InitHandoff == HandoffState /\ InitConsole

\* the operator's file in this behaviour: the scanned roll
HandoffFiles == {f \in DashFiles : FileKind(f) = "pdf"}

\* what the network delivers: responses and connection events
HealthAnswered ==
    logSeq < ChannelEvents /\ \E r \in HealthResponses : checkBackendHealth(r)

UploadAnswered ==
    /\ logSeq < ChannelEvents
    /\ \E i \in 1..MaxInFlight, r \in UploadResponses : QuickUploadResponse(i, r)

StartAnswered ==
    /\ logSeq < ChannelEvents
    /\ \E i \in 1..MaxInFlight, r \in DashStartResponses : StartCampaignResponse(i, r)

ConnectionOpened ==
    logSeq < ChannelEvents /\ \E id \in 1..MaxSockets : WsOnOpen(id)

NextHandoff ==
    \/ HealthAnswered
    \/ logSeq < ChannelEvents /\ \E file \in HandoffFiles : handleQuickUpload(file)
    \/ UploadAnswered
    \/ logSeq < ChannelEvents /\ startCampaign
    \/ StartAnswered
    \/ ConnectionOpened

\* the console after the wizard's hand-off; the network answers every request
\* and completes every connection attempt, the operator may do nothing
SpecHandoff ==
    /\ InitHandoff /\ [][NextHandoff]_vars
    /\ WF_vars(HealthAnswered) /\ WF_vars(UploadAnswered)
    /\ WF_vars(StartAnswered) /\ WF_vars(ConnectionOpened)

-----------------------------------------------------------------------------
(* Leaving the console: the router unmounts the Dashboard.  The component has
   no effect cleanup, so its connections and pending calls live on; their
   callbacks still run, and their state setters do nothing *)

\* navigation away from /dashboard; the state shown last is kept as it was,
\* nothing renders it any more
leaveConsole ==
    /\ dashMounted
    /\ dashMounted' = FALSE
    /\ UNCHANGED <<connected, campaignId, isRunning, logs, stats, backendStatus, qrCodeUrl,
                   showQrModal, wsRef, sockets, logSeq, healthPending, dashVoters,
                   dashMessage, dashInflight, wizardVars, storageVars>>

\* what an event of a connection changes once the Dashboard is unmounted
UnmountedEvent ==
    /\ ~dashMounted
    /\ UNCHANGED <<connected, campaignId, isRunning, logs, stats, backendStatus, qrCodeUrl,
                   showQrModal, wsRef, logSeq, healthPending, dashVoters, dashMessage,
                   dashInflight, dashMounted, wizardVars, storageVars>>

\* ws.onopen after the unmount
WsOnOpenUnmounted(id) ==
    /\ id \in 1..Len(sockets)
    /\ sockets[id].state = "connecting"
    /\ sockets' = [sockets EXCEPT ![id].state = "open"]
    /\ UnmountedEvent

\* ws.onclose after the unmount
WsOnCloseUnmounted(id) ==
    /\ id \in 1..Len(sockets)
    /\ sockets[id].state # "closed"
    /\ sockets' = [sockets EXCEPT ![id].state = "closed"]
    /\ UnmountedEvent

\* startCampaign after its await, after the unmount: connectWebSocket still
\* runs on the ref the closure holds
StartCampaignResponseUnmounted(i, r) ==
    /\ ~dashMounted
    /\ i \in 1..Len(dashInflight)
    /\ dashInflight[i].kind = "start"
    /\ dashInflight' = RemoveAt(dashInflight, i)
    /\ IF r.outcome = "ok"
       THEN LET ws == connectWebSocket(sockets, wsRef, r.campaign_id)
            IN /\ Len(sockets) < MaxSockets
               /\ sockets' = ws.sockets
               /\ wsRef' = ws.wsRef
       ELSE UNCHANGED <<sockets, wsRef>>
    /\ UNCHANGED <<connected, campaignId, isRunning, logs, stats, backendStatus, qrCodeUrl,
                   showQrModal, logSeq, healthPending, dashVoters, dashMessage,
                   dashMounted, wizardVars, storageVars>>

NextLeave ==
    \/ dashMounted /\ ChannelLogged < ChannelEvents /\ startCampaign
    \/ dashMounted /\ ChannelLogged < ChannelEvents
          /\ \E i \in 1..MaxInFlight, r \in DashStartResponses : StartCampaignResponse(i, r)
    \/ dashMounted /\ ChannelLogged < ChannelEvents
          /\ \E id \in 1..MaxSockets : WsOnOpen(id)
    \/ dashMounted /\ ChannelLogged < ChannelEvents
          /\ \E id \in 1..MaxSockets : WsOnClose(id)
    \/ leaveConsole
    \/ \E i \in 1..MaxInFlight, r \in DashStartResponses :
          StartCampaignResponseUnmounted(i, r)
    \/ \E id \in 1..MaxSockets : WsOnOpenUnmounted(id)
    \/ \E id \in 1..MaxSockets : WsOnCloseUnmounted(id)

\* a campaign started from the console, and the console left at any moment
SpecLeave == InitChannel /\ [][NextLeave]_vars

-----------------------------------------------------------------------------
(* The Dashboard that App.jsx routes at /dashboard
   (src/frontend/src/components/Dashboard/Dashboard.jsx): the same handlers,
   with an addLog that has no noise filter and no QR modal *)

\* addLog(message, type): setLogs(prev => [...prev.slice(-50), {...}])
addLogRouted(L, message, type) ==
    [logs |-> Append(SliceLast(L.logs, LogKeep),
                     [id |-> L.seq + 1, message |-> message, type |-> type]),
     seq |-> L.seq + 1]

\* ws.onmessage: the log entry the event appends, if any
onmessageLogRouted(L, data) ==
    CASE data.type = "log" -> addLogRouted(L, data.message, data.log_type)
      [] data.type = "complete" ->
            addLogRouted(L, <<"C", "a", "m", "p", "a", "i", "g", "n", " ", "c", "o", "m", "p",
                    "l", "e", "t", "e", "d", "!">>, "success")
      [] data.type = "error" -> addLogRouted(L, data.message, "error")
      [] data.type = "qr_waiting" ->
            addLogRouted(L, <<"C", "h", "e", "c", "k", " ", "b", "r", "o", "w", "s", "e", "r",
                    " ", "-", " ", "S", "c", "a", "n", " ", "W", "h", "a", "t", "s", "A", "p",
                    "p", " ", "Q", "R", " ", "c", "o", "d", "e">>, "warning")
      [] data.type = "whatsapp_ready" ->
            addLogRouted(L, <<"W", "h", "a", "t", "s", "A", "p", "p", " ", "c", "o", "n", "n",
                    "e", "c", "t", "e", "d", "!">>, "success")
      [] OTHER -> L

\* ws.onmessage
WsOnMessageRouted(id, data) ==
    /\ id \in 1..Len(sockets)
    /\ sockets[id].state = "open"
    /\ LET L == onmessageLogRouted(CurLog, data)
       IN logs' = L.logs /\ logSeq' = L.seq
    /\ stats' = onmessageStats(stats, data)
    /\ isRunning' = onmessageRunning(isRunning, data)
    /\ UNCHANGED <<connected, campaignId, backendStatus, qrCodeUrl, showQrModal, wsRef,
                   sockets, healthPending, dashVoters, dashMessage, dashInflight,
                   wizardVars, storageVars, dashMounted>>

\* ws.onclose
WsOnCloseRouted(id) ==
    /\ id \in 1..Len(sockets)
    /\ sockets[id].state # "closed"
    /\ sockets' = [sockets EXCEPT ![id].state = "closed"]
    /\ connected' = FALSE
    /\ LET L == addLogRouted(CurLog, <<"W", "e", "b", "S", "o", "c", "k", "e", "t", " ", "d",
            "i", "s", "c", "o", "n", "n", "e", "c", "t", "e", "d">>, "warning")
       IN logs' = L.logs /\ logSeq' = L.seq
    /\ UNCHANGED <<campaignId, isRunning, stats, backendStatus, qrCodeUrl, showQrModal,
                   wsRef, healthPending, dashVoters, dashMessage, dashInflight,
                   wizardVars, storageVars, dashMounted>>

\* a running campaign with its connection open: the entries logged so far
\* carry no noise marker, so they are the ones of RingStart
InitRouted == InitTelemetry

NextRouted ==
    \/ RingPushed < TelemetryLog
          /\ \E data \in TelemetryEvents : WsOnMessageRouted(wsRef[1], data)
    \/ RingPushed < TelemetryLog /\ WsOnCloseRouted(wsRef[1])

\* the events of one open telemetry connection in the routed Dashboard
SpecRouted == InitRouted /\ [][NextRouted]_vars

-----------------------------------------------------------------------------
(* Claims *)

\* C1: the visible log never holds more than 50 entries; after 60 sequential
\* log events it holds exactly the 50 most recent ones, oldest first.
C1_BoundedLog ==
    /\ Len(logs) <= LogKeep
    /\ RingPushed = RingEvents =>
          /\ Len(logs) = LogKeep
          /\ \A k \in 1..LogKeep : logs[k].id = logSeq - LogKeep + k

-----------------------------------------------------------------------------
(* Wizard states of the specification *)

StepNames == <<"PlanSelection", "Ingestion", "Composition", "PaymentPending",
               "PaymentVerification">>

WizardState ==
    IF launched THEN "Launched"
    ELSE IF ~modalOpen THEN "Closed"
    ELSE StepNames[step + 1]

\* the payment-reference shape of the specification: "pay_" followed by 10
\* to 30 ASCII letters or digits
IsPayRef(id) ==
    /\ Len(id) \in 14..34
    /\ <<id[1], id[2], id[3], id[4]>> = <<"p", "a", "y", "_">>
    /\ \A k \in 5..Len(id) : id[k] \in Digits \cup LowerAlpha \cup UpperAlpha

\* the start response answering request i is the continuation of a handler of
\* the mounted wizard
LiveStartAnswered(i, r) ==
    /\ inflight[i].kind = "start"
    /\ inflight[i].live
    /\ Len(inflight') < Len(inflight)
    /\ StartResponse(i, r)

\* C2 as stated: a non-bypass wizard reaches Launched only when the payment
\* reference currently in the field has been answered verified = true.
C2_LaunchedOnlyAfterEnteredRefVerified ==
    [][(~isDevUser /\ ~launched /\ launched') => paymentId \in verifiedRefs]_vars

\* C2 amended: for a non-bypass operator every hand-off (storage write and
\* navigation) is the continuation of a handleVerifyPayment call whose
\* reference, captured when verification was dispatched, was answered
\* verified = true; that reference is the one recorded with the campaign,
\* and a mounted wizard launches only after the payment step.
C2_LaunchedOnlyAfterVerified ==
    [][(~isDevUser /\ (launched' # launched \/ paidCampaign' # paidCampaign
                        \/ navState' # navState) /\ ~(~launched' /\ launched))
        => \E i \in DOMAIN inflight :
              /\ inflight[i].kind = "start"
              /\ inflight[i].by = "handleVerifyPayment"
              /\ inflight[i].paymentId \in verifiedRefs
              /\ IsPayRef(inflight[i].paymentId)
              /\ paidCampaign' # <<>>
              /\ paidCampaign'[1].paymentId = inflight[i].paymentId
              /\ ~paidCampaign'[1].isDev
              /\ (inflight[i].live => paymentPageOpened /\ step \in {3, 4})]_vars

C2_Witness ==
    /\ ~isDevUser
    /\ WizardState = "Launched"
    /\ paidCampaign # <<>>
    /\ paidCampaign[1].paymentId \in verifiedRefs

\* C3 as stated: confirming in Composition takes a paying operator to
\* PaymentPending, and once the confirm of a bypass account has run to its
\* end the wizard is Launched.
C3_ConfirmAlwaysLeavesComposition ==
    [][/\ (~isDevUser /\ step = 2 /\ handleProceedToPayment) => step' = 3
       /\ \A i \in DOMAIN inflight, r \in StartResponses :
             (isDevUser /\ LiveStartAnswered(i, r)) => launched']_vars

\* C3 amended: confirming takes a paying operator to PaymentPending with no
\* request issued; for a bypass account it issues one start request carrying
\* plan id 'dev' and stays in Composition, and the answer decides: Launched
\* on success, Composition with the error shown on failure.
C3_ConfirmLaunchesOrPays ==
    [][/\ (~isDevUser /\ step = 2 /\ handleProceedToPayment)
             => (WizardState' = "PaymentPending" /\ inflight' = inflight)
       /\ (isDevUser /\ step = 2 /\ handleProceedToPayment)
             => /\ WizardState' = "Composition"
                /\ Len(inflight') = Len(inflight) + 1
                /\ inflight'[Len(inflight')].kind = "start"
                /\ StartBody(inflight'[Len(inflight')]).plan_id = "dev"
       /\ \A i \in DOMAIN inflight, r \in StartResponses :
             (isDevUser /\ LiveStartAnswered(i, r))
                => IF r.outcome = "ok"
                   THEN WizardState' = "Launched"
                   ELSE WizardState' = "Composition" /\ error' # "" /\ ~isProcessing']_vars

C3_Witness ==
    /\ isDevUser
    /\ WizardState = "Composition"
    /\ error = "Failed to start campaign"
    /\ inflight = <<>>

\* C4: at most one start-campaign request of the mounted wizard's draft is in
\* flight at any time.
C4_OneStartInFlight ==
    Cardinality({i \in DOMAIN inflight : inflight[i].live /\ inflight[i].kind = "start"}) <= 1

\* C5: the persisted QuotaRecord satisfies 0 <= remaining <= total.
C5_QuotaWithinBounds ==
    userCampaigns # <<>> =>
        /\ IsNum(userCampaigns[1].remaining)
        /\ IsNum(userCampaigns[1].total)
        /\ 0 <= userCampaigns[1].remaining.val
        /\ userCampaigns[1].remaining.val <= userCampaigns[1].total.val

\* the catalog plan a plan object stands for (a caller's plan carries the
\* name of a catalog plan)
CatalogPlan(plan) == PLANS[CHOOSE k \in 1..Len(PLANS) : PLANS[k].name = plan.name]

\* C6: on a successful verification, a record of another plan (or no record)
\* is replaced by total = quota, remaining = quota - 1; a record of the same
\* plan keeps its total and has remaining decremented with a floor of zero;
\* for every plan the wizard can be opened with.
C6_QuotaUpdateRule ==
    [][\A i \in DOMAIN inflight, r \in StartResponses :
         (r.outcome = "ok" /\ inflight[i].by = "handleVerifyPayment" /\ StartResponse(i, r))
           => LET plan == CatalogPlan(inflight[i].plan)
                  new == userCampaigns'[1]
              IN IF userCampaigns = <<>> \/ userCampaigns[1].planId # plan.id
                 THEN /\ new.planId = plan.id
                      /\ new.total = plan.campaigns
                      /\ new.remaining = Num(plan.campaigns.val - 1)
                 ELSE /\ new.planId = plan.id
                      /\ new.total = userCampaigns[1].total
                      /\ IsNum(userCampaigns[1].remaining)
                      /\ new.remaining =
                            Num(IF userCampaigns[1].remaining.val >= 1
                                THEN userCampaigns[1].remaining.val - 1 ELSE 0)]_vars

\* C7: the QuotaRecord changes only in the continuation of a verification
\* that was answered verified = true; a shape mismatch, a rejection or a
\* transport failure of the verification leaves it as it was.
C7_QuotaWrittenOnlyAfterVerified ==
    [][userCampaigns' # userCampaigns
         => /\ \E i \in DOMAIN inflight :
                  /\ inflight[i].kind = "start"
                  /\ inflight[i].by = "handleVerifyPayment"
                  /\ inflight[i].paymentId \in verifiedRefs
                  /\ \E r \in StartResponses : StartResponse(i, r)
            /\ ~handleVerifyPayment
            /\ \A i \in DOMAIN inflight, r \in VerifyResponses : ~VerifyResponse(i, r)]_vars

C7_Witness ==
    /\ WizardState = "PaymentVerification"
    /\ error = "Payment not captured"
    /\ userCampaigns # <<>>
    /\ userCampaigns \in PriorUserCampaigns

\* C8: every verification answered verified = true updates the QuotaRecord,
\* whether or not the start request that follows it succeeds.
C8_EveryConfirmedVerificationUpdatesQuota ==
    [][\A i \in DOMAIN inflight, r \in StartResponses :
         (inflight[i].by = "handleVerifyPayment" /\ StartResponse(i, r))
           => userCampaigns' =
                 << StoredUserData(UpdatedUserData(userCampaigns, inflight[i].plan,
                                                   inflight[i].paymentId)) >>]_vars

\* C9: a reference is sent to the verifier only if it is "pay_" plus 10 to 30
\* letters or digits; a verify click on any other reference issues no call,
\* shows an error, clears the in-progress indicator and leaves the wizard in
\* PaymentVerification with the draft and the storage unchanged.
C9_ShapeCheckedBeforeNetwork ==
    /\ [](\A i \in DOMAIN inflight :
             inflight[i].kind = "verify" => IsPayRef(inflight[i].paymentId))
    /\ [][(step = 4 /\ ~IsPayRef(paymentId) /\ handleVerifyPayment)
            => /\ inflight' = inflight
               /\ error' # ""
               /\ ~isProcessing'
               /\ WizardState' = "PaymentVerification"
               /\ <<selectedPlan, extractedVoters, messageTemplate, paymentId>>'
                     = <<selectedPlan, extractedVoters, messageTemplate, paymentId>>
               /\ storageVars' = storageVars]_vars

C9_Witness ==
    /\ WizardState = "PaymentVerification"
    /\ paymentId = <<"x", "y", "z", "_", "A", "B", "C", "1", "2", "3", "x", "y", "z", "9">>
    /\ error = "Invalid Payment ID format. It should look like: pay_xxxxxxxxxxxxxxx"
    /\ ~isProcessing
    /\ inflight = <<>>

\* C10: a rejected verification, and a failed start after a confirmed one,
\* leave the mounted wizard where it is (PaymentVerification stays
\* PaymentVerification) with an error shown, the draft and the reference
\* field as they were and the verify control no longer held by the
\* in-progress indicator; a rejection issues no start request.
C10_RejectionKeepsVerificationStep ==
    [][/\ \A i \in DOMAIN inflight, r \in VerifyResponses :
             (r.outcome = "rejected" /\ inflight[i].kind = "verify" /\ inflight[i].live
                /\ VerifyResponse(i, r))
                => /\ WizardState' = WizardState
                   /\ error' # ""
                   /\ ~isProcessing'
                   /\ inflight' = RemoveAt(inflight, i)
                   /\ <<selectedPlan, extractedVoters, messageTemplate, paymentId>>'
                         = <<selectedPlan, extractedVoters, messageTemplate, paymentId>>
       /\ \A i \in DOMAIN inflight, r \in StartResponses :
             (r.outcome = "fail" /\ inflight[i].kind = "start" /\ inflight[i].live
                /\ inflight[i].by = "handleVerifyPayment" /\ StartResponse(i, r))
                => /\ WizardState' = WizardState
                   /\ error' # ""
                   /\ ~isProcessing'
                   /\ inflight' = RemoveAt(inflight, i)
                   /\ <<selectedPlan, extractedVoters, messageTemplate, paymentId>>'
                         = <<selectedPlan, extractedVoters, messageTemplate, paymentId>>]_vars

C10_Witness ==
    /\ WizardState = "PaymentVerification"
    /\ error = "Payment verification failed. Please check your Payment ID."
    /\ ~isProcessing
    /\ ~VerifyDisabled
    /\ inflight = <<>>


\* the wizard stays mounted across the step
StaysMounted == modalOpen /\ modalOpen'

\* C11: while the wizard is mounted its step is lowered only from Ingestion
\* to PlanSelection and from PaymentVerification to PaymentPending, whatever
\* responses arrive in between.
C11_OnlyTwoBackTransitions ==
    [][(StaysMounted /\ step' < step)
         => \/ (WizardState = "Ingestion" /\ WizardState' = "PlanSelection")
            \/ (WizardState = "PaymentVerification" /\ WizardState' = "PaymentPending")]_vars

\* a rejection arrived after the operator stepped back to PaymentPending
C11_Witness ==
    /\ WizardState = "PaymentPending"
    /\ paymentPageOpened
    /\ error = "Payment not captured"

\* C12: every forward transition of the mounted wizard moves to the next
\* step, and a launch happens from PaymentVerification, or from Composition
\* for a bypass account.
C12_ForwardOneStepAtATime ==
    [][/\ (StaysMounted /\ step' > step) => step' = step + 1
       /\ (~launched /\ launched')
            => \/ WizardState = "PaymentVerification"
               \/ (isDevUser /\ WizardState = "Composition")]_vars


\* C13: after Ingestion the drafted VoterList has at most as many contacts
\* as the ceiling of the plan currently selected in the draft.
C13_ListWithinActivePlanCeiling ==
    (modalOpen /\ step >= 2 /\ IsNum(selectedPlan.maxMessages))
        => Len(extractedVoters) <= selectedPlan.maxMessages.val

\* the message ceiling of a plan; a caller's plan has the ceiling of the
\* catalog plan it names
PlanCeiling(plan) ==
    IF IsNum(plan.maxMessages) THEN plan.maxMessages.val
    ELSE CatalogPlan(plan).maxMessages.val

\* C14: a successful extraction stores the first min(len(source), ceiling)
\* contacts in order and advances to Composition; the notice is raised if
\* and only if contacts were cut off.
C14_TruncatedToPlanCeiling ==
    [][\A i \in DOMAIN inflight, r \in IngestResponses :
         (r.outcome = "ok" /\ inflight[i].kind = "extract" /\ ExtractResponse(i, r))
           => LET ceiling == PlanCeiling(inflight[i].plan)
                  keep == IF r.n <= ceiling THEN r.n ELSE ceiling
              IN /\ extractedVoters' = SubSeq(Source(r.n), 1, keep)
                 /\ step' = 2
                 /\ IF r.n > ceiling
                    THEN error' = "Plan limit: Only first voters loaded"
                    ELSE error' = ""]_vars


\* C15: a failed extraction (refused or failed in transport) leaves the
\* wizard where it is (Ingestion stays Ingestion) with the VoterList
\* unchanged, an error shown and the upload control enabled again; a
\* successful one, with any number of contacts, enters Composition.
C15_IngestionFailureKeepsState ==
    [][\A i \in DOMAIN inflight, r \in ExtractResponses :
         (inflight[i].kind = "extract" /\ ExtractResponse(i, r))
           => IF r.outcome = "ok"
              THEN WizardState' = "Composition" /\ Len(extractedVoters') = r.n
              ELSE /\ WizardState' = WizardState
                   /\ extractedVoters' = extractedVoters
                   /\ error' # ""
                   /\ ~isExtracting']_vars

C15_Witness ==
    /\ WizardState = "Ingestion"
    /\ votersFile # <<>>
    /\ error = "Failed to extract voters"
    /\ ~isExtracting
    /\ extractedVoters = <<>>

\* a file the scan path must refuse: its name does not end in .pdf (in any
\* letter case) or it is larger than 10 MB
RefusedFile(file) ==
    LET n == Len(file.name)
    IN \/ file.size > 10485760
       \/ n < 4
       \/ <<file.name[n - 3], ToLowerChar(file.name[n - 2]), ToLowerChar(file.name[n - 1]),
            ToLowerChar(file.name[n])>> # <<".", "p", "d", "f">>

\* C16: selecting a file of the wrong type or above 10 MB issues no
\* extraction request, shows an error and leaves the step, the stored file
\* and the VoterList unchanged; an extraction in flight is always for a file
\* that passed both tests.
C16_FileValidatedBeforeDispatch ==
    /\ [](\A i \in DOMAIN inflight :
             inflight[i].kind = "extract"
                => votersFile # <<>> /\ ~RefusedFile(votersFile[1]))
    /\ [][\A file \in Files :
            (step = 1 /\ RefusedFile(file) /\ handleFileUpload(file))
              => /\ inflight' = inflight
                 /\ error' # ""
                 /\ ~isExtracting'
                 /\ <<step, votersFile, extractedVoters>>' = <<step, votersFile, extractedVoters>>]_vars

C16_Witness ==
    /\ WizardState = "Ingestion"
    /\ error = "File size must be less than 10MB"
    /\ votersFile = <<>>
    /\ inflight = <<>>

\* C17: the wizard opens in PlanSelection without a pre-selected plan and in
\* Ingestion with one; choosing a plan in PlanSelection enters Ingestion with
\* that plan active.
C17_InitialStateAndPlanChoice ==
    [][/\ \A p \in InitialPlans :
            (~modalOpen /\ OpenModal(p))
               => WizardState' = IF p = <<>> THEN "PlanSelection" ELSE "Ingestion"
       /\ \A k \in 1..Len(PLANS) :
            (step = 0 /\ handlePlanSelect(PLANS[k]))
               => WizardState' = "Ingestion" /\ selectedPlan' = PLANS[k]]_vars

C17_Witness ==
    /\ WizardState = "Ingestion"
    /\ ~isDevUser
    /\ selectedPlan = PLANS[3]

\* C18: stepping back from PaymentVerification and dispatching payment again
\* leave the drafted VoterList, MessageTemplate and plan as they were.
C18_BackAndRepayKeepDraft ==
    [][((step = 4 /\ BackToPayment) \/ (step = 3 /\ paymentPageOpened /\ handlePayment))
         => <<extractedVoters, messageTemplate, selectedPlan>>'
               = <<extractedVoters, messageTemplate, selectedPlan>>]_vars

\* the operator stepped back to PaymentPending with a drafted list and message
C18_Witness ==
    /\ WizardState = "PaymentPending"
    /\ paymentPageOpened
    /\ extractedVoters = Source(2)
    /\ messageTemplate = <<"h", "<">>
    /\ pendingCampaign # <<>>


\* the operator closed the wizard before it launched
Cancelled == runs >= 1 /\ ~modalOpen /\ ~launched

\* C19: once the wizard has been cancelled, the QuotaRecord and the stored
\* campaign handle stay as they were at the cancel, whatever calls were in
\* flight.
C19_CancelLeavesQuotaAndHandle ==
    [][(Cancelled /\ ~modalOpen')
         => /\ userCampaigns' = userCampaigns
            /\ paidCampaign # <<>> => paidCampaign' = paidCampaign]_vars

\* C20: after a cancel nothing of the draft remains in the persisted
\* pending-campaign record.
C20_CancelDiscardsDraft ==
    Cancelled => pendingCampaign = <<>>

\* the wizard's campaign handle as the console spells campaign ids
CampaignIdChars(id) ==
    CASE id = "c1" -> <<"c", "1">>
      [] id = "c2" -> <<"c", "2">>
      [] OTHER -> <<>>

\* C21: once the wizard is Launched with a returned campaignId, the console
\* eventually opens a telemetry connection addressed by that campaignId.
C21_LaunchOpensChannel ==
    (launched /\ navState # <<>>)
        ~> (\E id \in 1..Len(sockets) :
                sockets[id].campId = CampaignIdChars(navState[1].campaignId))

\* a connection that can still open or deliver events
Live(s) == s.state \in {"connecting", "open"}

\* C22: at most one telemetry connection is live at a time; when a connection
\* is created, every earlier one has had close() called on it first, and the
\* connection reference always designates the most recently created one.
C22_OneLiveChannel ==
    [][/\ Cardinality({id \in 1..Len(sockets') : Live(sockets'[id])}) <= 1
       /\ wsRef' = IF sockets' = <<>> THEN <<>> ELSE <<Len(sockets')>>
       /\ Len(sockets') > Len(sockets) =>
             \A id \in 1..Len(sockets) : ~Live(sockets'[id])]_vars

C22_Witness ==
    /\ Len(sockets) = 2
    /\ sockets[1].state = "closing"
    /\ sockets[2].state = "connecting"
    /\ wsRef = <<2>>

\* C23: telemetry events are applied in receipt order: each event carrying
\* stats replaces the counters by its payload and any other event leaves them,
\* so the counters are those of the last stats-carrying event received; each
\* event leaves the entries already logged in their order and puts the entry
\* it appends last.  After stats(1/10), log("A"), stats(2/10) the counters are
\* 2/10 and the log has one entry "A".
C23_AppliedInReceiptOrder ==
    [][\A data \in TelemetryEvents :
          WsOnMessage(wsRef[1], data) =>
            LET kept == SliceLast(logs, 50)
            IN /\ stats' = IF data.stats # NoStats THEN data.stats[1] ELSE stats
               /\ \/ logs' = logs
                  \/ Len(logs') = Len(kept) + 1 /\ SubSeq(logs', 1, Len(kept)) = kept
               /\ (data.type = "log" /\ ~IsNoise(data.message)) =>
                     /\ logs' # logs
                     /\ logs'[Len(logs')].message = data.message]_vars

C23_Witness ==
    /\ stats = [total |-> 10, sent |-> 2, failed |-> 0, progress |-> 20]
    /\ RingPushed = 1
    /\ Len(logs) = Len(RingStart.logs) + 1
    /\ logs[Len(logs)].message = <<"A">>
    /\ SubSeq(logs, 1, Len(RingStart.logs)) = RingStart.logs

C25_TerminalEventsStopRun ==
    [][\A data \in TerminalEvents :
          WsOnMessage(wsRef[1], data) => isRunning' = FALSE]_vars

\* C26: handling a complete or an error event does not close the transport:
\* the connection, the connection reference and the connected flag stay as
\* they were.
C26_TerminalEventsKeepTransport ==
    [][\A id \in 1..MaxSockets, data \in TerminalEvents :
          WsOnMessage(id, data) =>
            /\ sockets' = sockets
            /\ sockets'[id].state = "open"
            /\ wsRef' = wsRef
            /\ connected' = connected]_vars

C26_Witness ==
    /\ logs # <<>>
    /\ logs[Len(logs)].message = <<"C", "a", "m", "p", "a", "i", "g", "n", " ", "c", "o", "m",
            "p", "l", "e", "t", "e", "d", "!">>
    /\ isRunning = FALSE
    /\ connected = TRUE
    /\ wsRef # <<>>
    /\ sockets[wsRef[1]].state = "open"

\* the entry ws.onclose logs
DisconnectedMessage ==
    <<"W", "e", "b", "S", "o", "c", "k", "e", "t", " ", "d", "i", "s", "c", "o", "n", "n", "e",
      "c", "t", "e", "d">>

\* C27: when the transport closes, a disconnected entry is appended and the
\* connected flag is cleared, while the running indicator, the counters and
\* the campaign identifier stay as they were.
C27_ClosureKeepsRunState ==
    [][\A id \in 1..MaxSockets :
          WsOnClose(id) =>
            /\ connected' = FALSE
            /\ Len(logs') = Len(SliceLast(logs, 50)) + 1
            /\ logs'[Len(logs')].message = DisconnectedMessage
            /\ isRunning' = isRunning
            /\ stats' = stats
            /\ campaignId' = campaignId]_vars

C27_Witness ==
    /\ logs # <<>>
    /\ logs[Len(logs)].message = DisconnectedMessage
    /\ connected = FALSE
    /\ isRunning = TRUE
    /\ campaignId # <<>>
    /\ \E id \in 1..Len(sockets) : sockets[id].state = "closed"

\* the entry ws.onopen logs
ConnectedMessage ==
    <<"W", "e", "b", "S", "o", "c", "k", "e", "t", " ", "c", "o", "n", "n", "e", "c", "t", "e",
      "d", " ", "-", " ", "r", "e", "c", "e", "i", "v", "i", "n", "g", " ", "l", "i", "v", "e",
      " ", "u", "p", "d", "a", "t", "e", "s">>

\* this step appends exactly one entry, with this message
AppendsOne(message) ==
    /\ logSeq' = logSeq + 1
    /\ Len(logs') = Len(SliceLast(logs, 50)) + 1
    /\ SubSeq(logs', 1, Len(logs') - 1) = SliceLast(logs, 50)
    /\ logs'[Len(logs')].message = message

\* C28: each transition of a connection to open appends exactly one connected
\* entry and each transition to closed exactly one disconnected entry; a new
\* connection is created only in the step that answers a campaign start
\* request (there is no automatic reconnect).
C28_OneEntryPerTransitionNoReconnect ==
    [][/\ \A id \in 1..Len(sockets) :
             /\ (sockets[id].state # "open" /\ sockets'[id].state = "open")
                    => AppendsOne(ConnectedMessage)
             /\ (sockets[id].state # "closed" /\ sockets'[id].state = "closed")
                    => AppendsOne(DisconnectedMessage)
       /\ Len(sockets') > Len(sockets) =>
             /\ Len(sockets') = Len(sockets) + 1
             /\ \E i \in 1..Len(dashInflight) :
                    /\ dashInflight[i].kind = "start"
                    /\ dashInflight' = RemoveAt(dashInflight, i)]_vars

C28_Witness ==
    /\ Len(sockets) = 1
    /\ sockets[1].state = "closed"
    /\ dashInflight = <<>>
    /\ Len(logs) >= 2
    /\ logs[Len(logs) - 1].message = ConnectedMessage
    /\ logs[Len(logs)].message = DisconnectedMessage

\* C29: no entry whose message contains "<unknown>", "0x" or "Stacktrace" is
\* ever in the log, whatever produced it.
C29_NoNoiseInLog ==
    \A i \in 1..Len(logs) : ~IsNoise(logs[i].message)

\* the worker's events while the device link is pending
DeviceLinkPending == {"qr_waiting", "qr_ready"}

\* C30 as stated: a deviceLinkReady event (whatsapp_ready) turns the pairing
\* flag off and clears the QR code URL, and every deviceLinkPending event
\* turns the pairing flag on.
C30_PendingTurnsFlagOn ==
    [][\A data \in TelemetryEvents :
          WsOnMessage(wsRef[1], data) =>
            /\ data.type = "whatsapp_ready" => showQrModal' = FALSE /\ qrCodeUrl' = <<>>
            /\ data.type \in DeviceLinkPending => showQrModal' = TRUE]_vars

\* C30 (amended): whatsapp_ready turns the pairing flag off and clears the QR
\* code URL; only a qr_ready event turns the flag on or sets a cleared URL
\* again, so both stay off and cleared until a later qr_ready; a qr_waiting
\* event changes neither.
C30_FlagFollowsQrReady ==
    [][/\ \A data \in TelemetryEvents :
             WsOnMessage(wsRef[1], data) =>
               /\ data.type = "whatsapp_ready" =>
                     showQrModal' = FALSE /\ qrCodeUrl' = <<>>
               /\ data.type = "qr_ready" => showQrModal' = TRUE /\ qrCodeUrl' # <<>>
               /\ data.type = "qr_waiting" =>
                     showQrModal' = showQrModal /\ qrCodeUrl' = qrCodeUrl
       /\ ((~showQrModal /\ showQrModal') \/ (qrCodeUrl = <<>> /\ qrCodeUrl' # <<>>)) =>
             \E data \in TelemetryEvents :
                 data.type = "qr_ready" /\ WsOnMessage(wsRef[1], data)]_vars

C30_Witness ==
    /\ showQrModal = FALSE
    /\ qrCodeUrl = <<>>
    /\ Len(logs) >= 2
    /\ logs[Len(logs) - 1].message = <<"Q", "R", " ", "C", "o", "d", "e", " ", "r", "e", "a",
            "d", "y", " ", "-", " ", "S", "c", "a", "n", " ", "w", "i", "t", "h", " ", "W", "h",
            "a", "t", "s", "A", "p", "p", "!">>
    /\ logs[Len(logs)].message = <<"W", "h", "a", "t", "s", "A", "p", "p", " ", "c", "o", "n",
            "n", "e", "c", "t", "e", "d", "!">>

\* C31: once the console is left, no telemetry connection remains live.
C31_LeavingClosesChannel ==
    ~dashMounted => \A id \in 1..Len(sockets) : ~Live(sockets[id])

\* this step is the message handler's
MessageStep ==
    \E id \in 1..MaxSockets, data \in ConsoleTelemetryEvents : WsOnMessage(id, data)

\* C32 as stated: the message handler is the only writer of the log and of
\* the counters.
C32_MessageHandlerOnlyWriter ==
    [][(logs' # logs \/ stats' # stats) => MessageStep]_vars

\* C32 (amended): the message handler is the only writer of the counters; the
\* log is written by the other handlers too, and every write puts new entries
\* after the old ones, all of which are kept unless the log is at its cap.
C32_CountersOnlyByMessages ==
    [][/\ stats' # stats => MessageStep
       /\ logs' # logs =>
             \E k \in 1..Len(logs') :
                 LET kept == Len(logs') - k
                 IN /\ SubSeq(logs', 1, kept) = SliceLast(logs, kept)
                    /\ kept = Len(logs) \/ Len(logs') > 50]_vars

C32_Witness ==
    /\ stats # InitialStats
    /\ Len(logs) >= 2
    /\ logs[1].message = <<"B", "a", "c", "k", "e", "n", "d", " ", "s", "e", "r", "v", "e",
            "r", " ", "c", "o", "n", "n", "e", "c", "t", "e", "d">>
    /\ \E i \in 1..Len(logs) : logs[i].message = ConnectedMessage

\* C33: every failure of a collaborator call answered to the mounted wizard
\* (extraction, verification, start; failure response or transport error)
\* sets the error slot and clears the matching in-progress indicator.
C33_FailuresShownAndIndicatorCleared ==
    [][\A i \in DOMAIN inflight :
          inflight[i].live =>
            /\ \A r \in ExtractResponses :
                  (r.outcome # "ok" /\ inflight[i].kind = "extract" /\ ExtractResponse(i, r))
                     => error' # "" /\ ~isExtracting'
            /\ \A r \in VerifyResponses :
                  (r.outcome # "verified" /\ inflight[i].kind = "verify"
                      /\ VerifyResponse(i, r))
                     => error' # "" /\ ~isProcessing'
            /\ \A r \in StartResponses :
                  (r.outcome # "ok" /\ inflight[i].kind = "start" /\ StartResponse(i, r))
                     => error' # "" /\ ~isProcessing']_vars

C33_Witness ==
    /\ modalOpen
    /\ error \in {"Failed to start campaign", "Failed to start campaign. Please try again.",
                   "Failed to verify payment. Please try again."}
    /\ ~isProcessing
    /\ inflight = <<>>

------------------------------------------------------------------------------
(* A collaborator that never answers.  fetch has no timeout and the handlers
   pass no AbortSignal, so a verification call the collaborator leaves
   unanswered stays pending; the calls it does answer are delivered *)

ExtractAnswered ==
    \E i \in 1..MaxInFlight, r \in ExtractResponses : ExtractResponse(i, r)

WizardStartAnswered ==
    \E i \in 1..MaxInFlight, r \in StartResponses : StartResponse(i, r)

\* the wizard while the verification collaborator is silent
NextStalled ==
    \/ \E p \in InitialPlans : OpenModal(p)
    \/ CloseModal
    \/ \E i \in 1..Len(PLANS) : handlePlanSelect(PLANS[i])
    \/ BackToPlanSelection
    \/ \E file \in Files : handleFileUpload(file)
    \/ ExtractAnswered
    \/ \E m \in Messages : EditMessage(m)
    \/ handleProceedToPayment
    \/ handlePayment
    \/ BackToPayment
    \/ \E v \in PaymentIdInputs : EditPaymentId(v)
    \/ handleVerifyPayment
    \/ WizardStartAnswered

SpecStalled ==
    /\ Init /\ [][NextStalled]_vars
    /\ WF_vars(ExtractAnswered) /\ WF_vars(WizardStartAnswered)

\* C34: every dispatched ingestion, verification or start call eventually
\* ends with its in-progress indicator cleared, also when the call never
\* resolves.
C34_IndicatorsEventuallyCleared ==
    /\ isExtracting ~> ~isExtracting
    /\ isProcessing ~> ~isProcessing

\* the calls the collaborator answers do end: the extraction indicator clears
C34_ExtractionIndicatorCleared == isExtracting ~> ~isExtracting

------------------------------------------------------------------------------
(* The CSV branch of handleQuickUpload on bounded texts *)

MaxCsvLines == 2      \* data lines of a CSV text, after its first line

CsvHeaderLine == <<"N", "A", "M", "E", ",", "P", "H", "O", "N", "E">>
AshaLine == <<"A", "s", "h", "a", ",", "9", "8", "7", "6", "5", "4", "3", "2", "1", "0">>
BalaLine == <<"B", "a", "l", "a", ",", "1", "2", "3", "4", "5">>

\* the lines a text is made of: the header, the two rows of the
\* specification, a blank line, a quoted name with a 12-digit field before a
\* valid one, two valid fields with inner spaces, 10 digits starting with 5,
\* and a number alone on its line
CsvLines ==
    { CsvHeaderLine, AshaLine, BalaLine,
      <<" ">>,
      <<"\"", "C", "h", "i", "t", "r", "a", "\"", ",", "n", "/", "a", ",", "+", "9", "1", " ",
      "9", "8", "7", "6", "5", "-", "4", "3", "2", "1", "0", ",", "6", "0", "0", "0", "0", "0",
      "0", "0", "0", "0">>,
      <<"D", "e", "v", ",", " ", "7", "0", "0", "0", "0", " ", "0", "0", "0", "0", "0", " ",
      ",", "8", "0", "0", "0", "0", "0", "0", "0", "0", "0">>,
      <<"5", "8", "7", "6", "5", "4", "3", "2", "1", "0", ",", "5", "8", "7", "6", "5", "4",
      "3", "2", "1", "0">>,
      <<"9", "8", "7", "6", "5", "4", "3", "2", "1", "0">> }

RECURSIVE JoinLines(_)
\* the text of a file with the given lines
JoinLines(lines) ==
    IF lines = <<>> THEN <<>>
    ELSE IF Len(lines) = 1 THEN Head(lines)
    ELSE Head(lines) \o <<"\n">> \o JoinLines(Tail(lines))

\* CSV files of up to MaxCsvLines + 1 lines
CsvFiles ==
    { [name |-> <<"b", ".", "C", "S", "V">>, text |-> JoinLines(ls)] :
        ls \in UNION {[1..n -> CsvLines] : n \in 1..(MaxCsvLines + 1)} }

\* handleQuickUpload after await file.text(), which resolves or rejects
CsvRead ==
    \E i \in 1..MaxInFlight, r \in {q \in ConsoleUploadResponses : q.outcome \in {"ok", "throw"}} :
        QuickUploadResponse(i, r)

\* the first upload of a session
CsvUpload == logSeq = 0 /\ \E file \in CsvFiles : handleQuickUpload(file)

NextCsv == CsvUpload \/ CsvRead

SpecCsv == InitMounted /\ [][NextCsv]_vars

\* the non-empty lines of a text, and the fields of a line
TextLines(text) ==
    SelectSeq(Split(text, "\n"), LAMBDA l : \E k \in 1..Len(l) : l[k] \notin Whitespace)

LineFields(line) == LET raw == Split(line, ",") IN [k \in 1..Len(raw) |-> CsvField(raw[k])]

NormalizesToMobile(field) ==
    LET d == DigitsOnly(field) IN Len(d) = 10 /\ d[1] \in {"6", "7", "8", "9"}

\* what the claim says a text yields: R is the parse of text
ParsedAsClaimed(text, R) ==
    LET lines == TextLines(text)
        data == IF lines = <<>> THEN <<>> ELSE Tail(lines)
        Later(k) == {f \in 2..Len(LineFields(data[k])) :
                        NormalizesToMobile(LineFields(data[k])[f])}
        Y == {k \in 1..Len(data) : Later(k) # {}}
        Nth(n) == CHOOSE k \in Y : Cardinality({j \in Y : j <= k}) = n
    IN /\ Len(R) = Cardinality(Y)
       /\ \A n \in 1..Len(R) :
             LET fields == LineFields(data[Nth(n)])
                 f == CHOOSE g \in Later(Nth(n)) : \A h \in Later(Nth(n)) : g <= h
             IN R[n] = [NAME |-> fields[1], MOBILE |-> DigitsOnly(fields[f])]

\* C35: the header never yields a contact; each later line yields at most
\* one contact, named by field 0, whose mobile is the first later field that
\* normalizes to 10 digits starting 6-9; lines without one yield nothing;
\* contacts keep line order; "Asha,9876543210" yields Asha, "Bala,12345"
\* yields none.
C35_CsvParsing ==
    [][\A i \in DOMAIN dashInflight :
          (dashInflight[i].kind = "csv"
             /\ \E r \in ConsoleUploadResponses : r.outcome = "ok" /\ QuickUploadResponse(i, r))
          => LET text == dashInflight[i].file[1].text
             IN /\ \/ ParsedAsClaimed(text, dashVoters')
                   \/ ParsedAsClaimed(text, <<>>) /\ dashVoters' = dashVoters
                /\ text = JoinLines(<<CsvHeaderLine, AshaLine, BalaLine>>)
                      => dashVoters' = <<Asha>>]_vars

C35_Witness ==
    /\ dashInflight = <<>>
    /\ Len(dashVoters) = 2
    /\ dashVoters[1] = [NAME |-> <<"D", "e", "v">>,
                        MOBILE |-> <<"7", "0", "0", "0", "0", "0", "0", "0", "0", "0">>]
    /\ dashVoters[2] = Asha

\* C36: a bypass account never issues a verification call, never reaches
\* the payment or verification step, never writes the quota record or the
\* pending-campaign record, and every start request it issues carries plan
\* id 'dev'.
C36_BypassNeverPays ==
    [][isDevUser =>
          /\ step' \notin {3, 4}
          /\ \A i \in DOMAIN inflight' :
                /\ inflight'[i].kind # "verify"
                /\ inflight'[i].kind = "start" => StartBody(inflight'[i]).plan_id = "dev"
          /\ userCampaigns' = userCampaigns
          /\ pendingCampaign' = pendingCampaign]_vars

C36_Witness ==
    /\ isDevUser /\ launched
    /\ paidCampaign # <<>>

StartInFlight == \E i \in DOMAIN dashInflight : dashInflight[i].kind = "start"

\* C37: while the running indicator is true a start request is in flight or
\* a successful start has set the campaign identifier; a start with no
\* voters issues no request and leaves the indicator false; a failed start
\* resets the indicator and opens no connection.
C37_RunningHasStart ==
    /\ [](isRunning => StartInFlight \/ campaignId # <<>>)
    /\ [][(Len(dashVoters) = 0 /\ startCampaign)
            => dashInflight' = dashInflight /\ ~isRunning']_vars
    /\ [][\A i \in DOMAIN dashInflight :
            (dashInflight[i].kind = "start"
               /\ \E r \in DashStartResponses : r.outcome # "ok" /\ StartCampaignResponse(i, r))
            => ~isRunning' /\ sockets' = sockets /\ wsRef' = wsRef]_vars

C37_Witness ==
    /\ ~isRunning /\ campaignId = <<>>
    /\ dashVoters # <<>> /\ dashInflight = <<>> /\ sockets = <<>>
    /\ \E k \in DOMAIN logs :
          SubSeq(logs[k].message, 1, 5) \in {<<"F", "a", "i", "l", "e">>, <<"S", "t", "a", "r", "t">>}
             /\ logs[k].type = "error"

\* C38: whenever the current connection (the one opened last) is open, the
\* connected flag is true, also when the close callback of the previous
\* connection runs after the replacement has opened.
C38_CurrentOpenMeansConnected ==
    (wsRef # <<>> /\ sockets[wsRef[1]].state = "open") => connected

\* a log entry reports the outcome of the health probe
HealthReported ==
    \E k \in DOMAIN logs :
        /\ Len(logs[k].message) >= 14
        /\ SubSeq(logs[k].message, 1, 14)
              = <<"B", "a", "c", "k", "e", "n", "d", " ", "s", "e", "r", "v", "e", "r">>

\* C39: once the health probe has completed with any outcome the backend
\* status is 'online' or 'offline' and a log entry reports it; the status
\* becomes 'online' only on a 200 response; the start control acts only
\* while the status is 'online'.
C39_ProbeOutcomeReported ==
    /\ [](~healthPending => backendStatus \in {"online", "offline"} /\ HealthReported)
    /\ [][(backendStatus # "online" /\ backendStatus' = "online") => checkBackendHealth("ok")]_vars
    /\ [][(startCampaign \/ stopCampaign) => backendStatus = "online"]_vars

=============================================================================
